---- MODULE Spec2Model ----
(***************************************************************************)
(* Model of the hospital stress prediction backend (backend/app):          *)
(* cache, weather enrichment, feature assembly, predictor with fallback,   *)
(* decision logic and the orchestrator that persists one prediction per    *)
(* hospital per day.                                                       *)
(*                                                                         *)
(* Numbers.  Scores and percentages are Python floats that the code rounds *)
(* to 3 decimals; the model holds them as integers in thousandths          *)
(* (0.75 is 750).  icu_occupancy_pct is the exact fraction                 *)
(* icu_occupied / icu_total, kept as numerator and denominator.            *)
(* Arithmetic is exact; binary floating point error is not modelled.       *)
(* Time is in seconds.                                                     *)
(***************************************************************************)
EXTENDS Integers, Sequences, FiniteSets, TLC

\* ------------------------------------------------------------------------
\* Bounds of the model
\* ------------------------------------------------------------------------
MaxIcuTotal == 4

\* ------------------------------------------------------------------------
\* Program constants
\* ------------------------------------------------------------------------
PATIENTS_PER_STAFF == 10

REQUIRED_FEATURES ==
  << "icu_occupancy_pct", "daily_patients", "staff_on_duty", "oxygen_low",
     "medicine_low", "temp_max", "rain_mm", "weather_severity",
     "is_weekend", "is_festival", "seasonal_illness_weight" >>

FEATURE_CONTRACT ==
  << "icu_occupancy_pct", "daily_patients", "staff_on_duty", "oxygen_low",
     "medicine_low", "temp_max", "rain_mm", "weather_severity",
     "is_weekend", "is_festival", "seasonal_illness_weight" >>

FALLBACK_PREDICTIONS ==
  [ risk_score |-> 500,
    expected_er_increase_pct |-> 150,
    expected_icu_increase_pct |-> 100 ]

\* ------------------------------------------------------------------------
\* Input domains
\* ------------------------------------------------------------------------
StatusVals == {"low", "normal"}
DailyPatientVals == {0, 95, 100, 120}
StaffVals == {0, 7, 12, 20}

Snapshots ==
  { [ icu_occupied |-> o, icu_total |-> t, daily_patients |-> p,
      staff_on_duty |-> s, oxygen_status |-> ox, medicine_status |-> md ] :
    o \in 0..MaxIcuTotal, t \in 1..MaxIcuTotal, p \in DailyPatientVals,
    s \in StaffVals, ox \in StatusVals, md \in StatusVals }

WellFormed(hd) == hd.icu_occupied <= hd.icu_total

\* Outputs of the trained regressor, in thousandths, already rounded.
RegOutputs ==
  { <<0, 0, 0>>, <<299, 100, 50>>, <<300, 200, 0>>, <<301, 201, 100>>,
    <<499, 150, 333>>, <<500, 250, 100>>, <<501, 200, 1000>>,
    <<749, 1000, 500>>, <<750, 201, 50>>, <<751, 300, 250>>,
    <<1000, 1000, 1000>>, <<120, 0, 1000>> }

\* What the regressor's own predict does on an ordered vector: it returns a
\* triple or raises.
RegOutcomes ==
  { [raised |-> FALSE, out |-> o] : o \in RegOutputs }
    \cup { [raised |-> TRUE, out |-> <<0, 0, 0>>] }

\* The outcome of a call that raised an exception.
Raised == [raised |-> TRUE]

\* The object injected as the global model: nothing, the EmergencyModel
\* wrapper (whose artifact is present, missing or corrupt on disk), or an
\* object whose predict raises.
ModelKinds ==
  { [kind |-> "none", artifact |-> "n/a"],
    [kind |-> "wrapper", artifact |-> "present"],
    [kind |-> "wrapper", artifact |-> "missing"],
    [kind |-> "wrapper", artifact |-> "corrupt"],
    [kind |-> "raising", artifact |-> "n/a"] }

Cities == {"Hyderabad", "UnknownCity123"}

\* Raw readings of the weather API: main.temp_max and rain volume.
ApiReadings ==
  { [temp_max |-> 30, rain_mm |-> 0], [temp_max |-> 43, rain_mm |-> 60] }

\* What the HTTP call of _fetch_weather_from_api does.
FetchOutcomes == {"ok", "http_error", "timeout"}

SimWeather ==
  { [temp_max |-> t, rain_mm |-> r, weather_severity |-> 400] :
    t \in {20, 40, 44}, r \in {0, 50} }

\* ------------------------------------------------------------------------
\* Arithmetic helpers
\* ------------------------------------------------------------------------
Min(a, b) == IF a < b THEN a ELSE b

Max(a, b) == IF a > b THEN a ELSE b

\* ceil(n / d) for n >= 0, d > 0
CeilDiv(n, d) == (n + d - 1) \div d

\* round(n / d) to the nearest integer, ties to even (Python round)
RoundHalfEven(n, d) ==
  LET q == n \div d
      r == n % d
  IN  IF 2 * r < d THEN q
      ELSE IF 2 * r > d THEN q + 1
      ELSE IF q % 2 = 0 THEN q ELSE q + 1

\* ------------------------------------------------------------------------
\* cache.py: the two tiers are maps from cache key to [value, expires_at]
\* ------------------------------------------------------------------------
Remove(f, key) == [k \in DOMAIN f \ {key} |-> f[k]]

Put(f, key, entry) ==
  [k \in DOMAIN f \cup {key} |-> IF k = key THEN entry ELSE f[k]]

\* CacheService.get that answers a database hit without populating the
\* in-memory tier.
CacheGet_NoPopulate(mem, db, key, t) ==
  LET memHit == key \in DOMAIN mem /\ mem[key].expires_at > t
      mem1 == IF key \in DOMAIN mem /\ ~memHit THEN Remove(mem, key) ELSE mem
  IN  IF memHit
      THEN [found |-> TRUE, tier |-> "memory", value |-> mem[key].value,
            mem |-> mem, db |-> db]
      ELSE IF key \in DOMAIN db
      THEN IF db[key].expires_at > t
           THEN [found |-> TRUE, tier |-> "database", value |-> db[key].value,
                 mem |-> mem1, db |-> db]
           ELSE [found |-> FALSE, tier |-> "miss", mem |-> mem1,
                 db |-> Remove(db, key)]
      ELSE [found |-> FALSE, tier |-> "miss", mem |-> mem1, db |-> db]

\* CacheService.get with the expiry test made inclusive (expires_at >= now).
CacheGet_Inclusive(mem, db, key, t) ==
  IF key \in DOMAIN mem /\ mem[key].expires_at >= t
  THEN [found |-> TRUE, tier |-> "memory", value |-> mem[key].value,
        mem |-> mem, db |-> db]
  ELSE IF key \in DOMAIN db /\ db[key].expires_at >= t
  THEN [found |-> TRUE, tier |-> "database", value |-> db[key].value,
        mem |-> Put(mem, key, db[key]), db |-> db]
  ELSE [found |-> FALSE, tier |-> "miss", mem |-> Remove(mem, key),
        db |-> Remove(db, key)]

\* CacheService.get(key, db) at time t: the answer and the tiers afterwards.
CacheGet(mem, db, key, t) ==
  LET memHit == key \in DOMAIN mem /\ mem[key].expires_at > t
      \* an expired in-memory entry is dropped before the database is read
      mem1 == IF key \in DOMAIN mem /\ ~memHit THEN Remove(mem, key) ELSE mem
  IN  IF memHit
      THEN [found |-> TRUE, tier |-> "memory", value |-> mem[key].value,
            mem |-> mem, db |-> db]
      ELSE IF key \in DOMAIN db
      THEN IF db[key].expires_at > t
           THEN [found |-> TRUE, tier |-> "database", value |-> db[key].value,
                 mem |-> Put(mem1, key, [value |-> db[key].value,
                                         expires_at |-> db[key].expires_at]),
                 db |-> db]
           ELSE [found |-> FALSE, tier |-> "miss", mem |-> mem1,
                 db |-> Remove(db, key)]
      ELSE [found |-> FALSE, tier |-> "miss", mem |-> mem1, db |-> db]

\* CacheService.set(key, value, ttl_seconds, db) at time t.
CacheSet(mem, db, key, value, ttl, t) ==
  LET entry == [value |-> value, expires_at |-> t + ttl]
  IN  [mem |-> Put(mem, key, entry), db |-> Put(db, key, entry)]

\* CacheService.delete that removes the in-memory entry only.
CacheDelete_MemoryOnly(mem, db, key) ==
  [mem |-> Remove(mem, key), db |-> db]

\* CacheService.delete(key, db).
CacheDelete(mem, db, key) ==
  [mem |-> Remove(mem, key), db |-> Remove(db, key)]

\* CacheService.clear_expired with a strict test (expires_at < now).
CacheClearExpired_Strict(mem, db, t) ==
  LET expired == {k \in DOMAIN db : db[k].expires_at < t}
  IN  [mem |-> mem,
       db |-> [k \in DOMAIN db \ expired |-> db[k]],
       expired_count |-> Cardinality(expired)]

\* CacheService.clear_expired(db) at time t.
CacheClearExpired(mem, db, t) ==
  LET expired == {k \in DOMAIN db : db[k].expires_at <= t}
  IN  [mem |-> mem,
       db |-> [k \in DOMAIN db \ expired |-> db[k]],
       expired_count |-> Cardinality(expired)]

\* ------------------------------------------------------------------------
\* enrichment.py
\* ------------------------------------------------------------------------
WEATHER_TTL == 86400

DateOf(t) == t \div (24 * 60 * 60)

WeatherKey(city, t) == [kind |-> "weather", scope |-> city, date |-> DateOf(t)]

\* _calculate_severity without the cap at 1.0.
calculate_severity_NoCap(temp, rain) ==
  LET s0 == IF temp > 35 THEN (temp - 35) * 50 ELSE 0
      s1 == IF rain > 5 THEN s0 + (rain - 5) * 20 ELSE s0
  IN  Max(s1, 0)

\* _calculate_severity, in thousandths, for temp in degrees and rain in mm.
calculate_severity(temp, rain) ==
  LET s0 == IF temp > 35 THEN (temp - 35) * 50 ELSE 0
      s1 == IF rain > 5 THEN s0 + (rain - 5) * 20 ELSE s0
  IN  Min(Max(s1, 0), 1000)

process_weather_data(data) ==
  [ temp_max |-> data.temp_max,
    rain_mm |-> data.rain_mm,
    weather_severity |-> calculate_severity(data.temp_max, data.rain_mm) ]

get_fallback_weather ==
  [temp_max |-> 30, rain_mm |-> 0, weather_severity |-> 300]

\* _fetch_weather_from_api: raises when the key is unset, the request fails
\* or the 5 s timeout passes; otherwise returns the reading.
fetch_weather_from_api(api_key_set, outcome, reading) ==
  IF ~api_key_set \/ outcome # "ok" THEN Raised
  ELSE [raised |-> FALSE, data |-> reading]

\* get_today_weather that caches whatever it returns, the fallback too.
get_today_weather_CacheFallback(mem, db, use_db, city, t, api_key_set, outcome, reading) ==
  LET key == WeatherKey(city, t)
      got == IF use_db THEN CacheGet(mem, db, key, t)
             ELSE [found |-> FALSE, mem |-> mem, db |-> db]
  IN  IF got.found
      THEN [raised |-> FALSE, result |-> got.value, fetched |-> FALSE,
            mem |-> got.mem, db |-> got.db]
      ELSE LET fetched == fetch_weather_from_api(api_key_set, outcome, reading)
               result == IF fetched.raised THEN get_fallback_weather
                         ELSE process_weather_data(fetched.data)
               put == IF use_db
                      THEN CacheSet(got.mem, got.db, key, result,
                                    WEATHER_TTL, t)
                      ELSE [mem |-> got.mem, db |-> got.db]
           IN  [raised |-> FALSE, result |-> result, fetched |-> TRUE,
                mem |-> put.mem, db |-> put.db]

\* get_today_weather without the except branch.
get_today_weather_NoExcept(mem, db, use_db, city, t, api_key_set, outcome, reading) ==
  LET key == WeatherKey(city, t)
      got == IF use_db THEN CacheGet(mem, db, key, t)
             ELSE [found |-> FALSE, mem |-> mem, db |-> db]
  IN  IF got.found
      THEN [raised |-> FALSE, result |-> got.value, fetched |-> FALSE,
            mem |-> got.mem, db |-> got.db]
      ELSE LET fetched == fetch_weather_from_api(api_key_set, outcome, reading)
           IN  IF fetched.raised
               THEN [raised |-> TRUE, fetched |-> TRUE,
                     mem |-> got.mem, db |-> got.db]
               ELSE [raised |-> FALSE,
                     result |-> process_weather_data(fetched.data),
                     fetched |-> TRUE, mem |-> got.mem, db |-> got.db]

\* EnrichmentService.get_today_weather(city, db) at time t: the answer, whether
\* the API was called, and the cache tiers afterwards.
get_today_weather(mem, db, use_db, city, t, api_key_set, outcome, reading) ==
  LET key == WeatherKey(city, t)
      got == IF use_db THEN CacheGet(mem, db, key, t)
             ELSE [found |-> FALSE, mem |-> mem, db |-> db]
  IN  IF got.found
      THEN [raised |-> FALSE, result |-> got.value, fetched |-> FALSE,
            mem |-> got.mem, db |-> got.db]
      ELSE LET fetched == fetch_weather_from_api(api_key_set, outcome, reading)
           IN  IF fetched.raised
               THEN [raised |-> FALSE, result |-> get_fallback_weather,
                     fetched |-> TRUE, mem |-> got.mem, db |-> got.db]
               ELSE LET result == process_weather_data(fetched.data)
                        put == IF use_db
                               THEN CacheSet(got.mem, got.db, key, result,
                                             WEATHER_TTL, t)
                               ELSE [mem |-> got.mem, db |-> got.db]
                    IN  [raised |-> FALSE, result |-> result, fetched |-> TRUE,
                         mem |-> put.mem, db |-> put.db]

\* ------------------------------------------------------------------------
\* feature_assembly.py
\* ------------------------------------------------------------------------
CACHE_TTL == 3600

\* The calendar of the model: second 0 is 00:00 on Friday 30 November, so
\* date 0 is a weekday in a month of weight 0.3 and date 1 a Saturday in
\* December.  weekday() counts Monday as 0.
Weekday(date) == (date + 4) % 7

Month(date) == IF date = 0 THEN 11 ELSE 12

DayKey(kind, t) == [kind |-> kind, scope |-> "", date |-> DateOf(t)]

\* enrich_weather at time t; sim is the simulated reading drawn on a miss.
enrich_weather(mem, db, t, sim) ==
  LET got == CacheGet(mem, db, DayKey("weather", t), t)
  IN  IF got.found
      THEN [value |-> got.value, mem |-> got.mem, db |-> got.db,
            cached |-> TRUE]
      ELSE LET put == CacheSet(got.mem, got.db, DayKey("weather", t), sim,
                               CACHE_TTL, t)
           IN  [value |-> sim, mem |-> put.mem, db |-> put.db,
                cached |-> FALSE]

enrich_calendar(mem, db, t) ==
  LET got == CacheGet(mem, db, DayKey("calendar", t), t)
      calendar_data ==
        [ is_weekend |-> IF Weekday(DateOf(t)) >= 5 THEN 1 ELSE 0,
          is_festival |-> 0 ]
  IN  IF got.found
      THEN [value |-> got.value, mem |-> got.mem, db |-> got.db,
            cached |-> TRUE]
      ELSE LET put == CacheSet(got.mem, got.db, DayKey("calendar", t),
                               calendar_data, CACHE_TTL, t)
           IN  [value |-> calendar_data, mem |-> put.mem, db |-> put.db,
                cached |-> FALSE]

enrich_seasonal(t) ==
  LET current_month == Month(DateOf(t))
  IN  [ seasonal_illness_weight |->
          IF current_month \in {12, 1, 2} THEN 800
          ELSE IF current_month \in {7, 8, 9} THEN 700
          ELSE 300 ]

\* The three enrichments as both assemble_backend_context and
\* assemble_features gather them: w is what enrich_weather returned, c what
\* enrich_calendar returned on the cache that enrich_weather left.
enrich_all(w, c, t) ==
  [ weather |-> w.value, calendar |-> c.value,
    seasonal |-> enrich_seasonal(t), mem |-> c.mem, db |-> c.db ]

derive_fields(hd) ==
  [ icu_occupancy_pct |-> [num |-> hd.icu_occupied, den |-> hd.icu_total],
    daily_patients |-> hd.daily_patients,
    staff_on_duty |-> hd.staff_on_duty,
    oxygen_low |-> IF hd.oxygen_status = "low" THEN 1 ELSE 0,
    medicine_low |-> IF hd.medicine_status = "low" THEN 1 ELSE 0 ]

\* Steps 4 and 6 of assemble_features: merge the four dicts and lay the
\* values out in REQUIRED_FEATURES order.
OrderedFeatures(derived, weather, calendar, seasonal) ==
  [ columns |-> REQUIRED_FEATURES,
    icu_occupancy_pct |-> derived.icu_occupancy_pct,
    daily_patients |-> derived.daily_patients,
    staff_on_duty |-> derived.staff_on_duty,
    oxygen_low |-> derived.oxygen_low,
    medicine_low |-> derived.medicine_low,
    temp_max |-> weather.temp_max,
    rain_mm |-> weather.rain_mm,
    weather_severity |-> weather.weather_severity,
    is_weekend |-> calendar.is_weekend,
    is_festival |-> calendar.is_festival,
    seasonal_illness_weight |-> seasonal.seasonal_illness_weight ]

\* assemble_features on dicts as Python keeps them: a dict is the sequence
\* of its items [k, v] in insertion order, each key once.
DictKeys(d) == [i \in 1..Len(d) |-> d[i].k]

HasKey(d, key) == \E i \in 1..Len(d) : d[i].k = key

DictGet(d, key) == d[CHOOSE i \in 1..Len(d) : d[i].k = key].v

\* d[key] = value: a key already present keeps its place and takes the value.
DictSet(d, key, value) ==
  IF HasKey(d, key)
  THEN [i \in 1..Len(d) |-> IF d[i].k = key THEN [k |-> key, v |-> value]
                                             ELSE d[i]]
  ELSE Append(d, [k |-> key, v |-> value])

\* {**a, **b}
RECURSIVE DictMerge(_, _)
DictMerge(a, b) ==
  IF b = << >> THEN a
  ELSE DictMerge(DictSet(a, Head(b).k, Head(b).v), Tail(b))

\* [f for f in required if f not in d]
MissingFrom(required, d) ==
  SelectSeq(required, LAMBDA f : ~HasKey(d, f))

required_fields ==
  << "icu_occupied", "icu_total", "daily_patients", "staff_on_duty",
     "oxygen_status", "medicine_status" >>

\* validate_hospital_data with medicine_status left out of the list.
validate_hospital_data_FiveFields(hd) ==
  LET missing == MissingFrom(SubSeq(required_fields, 1, 5), hd)
  IN  [raised |-> missing # << >>, error |-> "hospital_fields",
       missing |-> missing]

\* validate_hospital_data: raises ValueError naming the missing fields, or
\* returns.
validate_hospital_data(hd) ==
  LET missing == MissingFrom(required_fields, hd)
  IN  [raised |-> missing # << >>, error |-> "hospital_fields",
       missing |-> missing]

\* derive_fields on a dict: the five derived items in the order the code
\* writes them.
derive_fields_dict(hd) ==
  LET f == derive_fields(
             [ icu_occupied |-> DictGet(hd, "icu_occupied"),
               icu_total |-> DictGet(hd, "icu_total"),
               daily_patients |-> DictGet(hd, "daily_patients"),
               staff_on_duty |-> DictGet(hd, "staff_on_duty"),
               oxygen_status |-> DictGet(hd, "oxygen_status"),
               medicine_status |-> DictGet(hd, "medicine_status") ])
  IN  << [k |-> "icu_occupancy_pct", v |-> f.icu_occupancy_pct],
         [k |-> "daily_patients", v |-> f.daily_patients],
         [k |-> "staff_on_duty", v |-> f.staff_on_duty],
         [k |-> "oxygen_low", v |-> f.oxygen_low],
         [k |-> "medicine_low", v |-> f.medicine_low] >>

\* Steps 5-6 left out: the merged dict goes into the DataFrame as it is.
order_features_AsMerged(feature_dict) ==
  [raised |-> FALSE, error |-> "", missing |-> << >>, vector |-> feature_dict]

\* Steps 5-6 of assemble_features: the completeness check, then the items
\* of REQUIRED_FEATURES in that order.
order_features(feature_dict) ==
  LET missing == MissingFrom(REQUIRED_FEATURES, feature_dict)
  IN  IF missing # << >>
      THEN [raised |-> TRUE, error |-> "features", missing |-> missing,
            vector |-> << >>]
      ELSE [raised |-> FALSE, error |-> "", missing |-> << >>,
            vector |-> [i \in 1..Len(REQUIRED_FEATURES) |->
                          [k |-> REQUIRED_FEATURES[i],
                           v |-> DictGet(feature_dict, REQUIRED_FEATURES[i])]]]

\* assemble_features for what the three enrichments returned.
assemble_features(hd, weather, calendar, seasonal) ==
  LET checked == validate_hospital_data(hd)
  IN  IF checked.raised
      THEN [raised |-> TRUE, error |-> checked.error,
            missing |-> checked.missing, vector |-> << >>]
      ELSE IF MissingFrom(required_fields, hd) # << >>
      \* hospital_data[...] in derive_fields raises KeyError
      THEN [raised |-> TRUE, error |-> "KeyError",
            missing |-> << Head(MissingFrom(required_fields, hd)) >>,
            vector |-> << >>]
      ELSE order_features(
             DictMerge(DictMerge(DictMerge(derive_fields_dict(hd), weather),
                                 calendar), seasonal))

\* ------------------------------------------------------------------------
\* predictor.py, emergency_model.py
\* ------------------------------------------------------------------------
\* _rule_based_fallback with an ER surge of 0.25 for a risk above 0.5.
rule_based_fallback_Surge25(fv) ==
  LET occ == fv.icu_occupancy_pct
      base0 == 600 * occ.num
      base1 == IF fv.oxygen_low = 1 \/ fv.medicine_low = 1
               THEN base0 + 200 * occ.den ELSE base0
      base2 == IF fv.is_weekend = 1 THEN base1 + 100 * occ.den ELSE base1
      risk == Min(base2, 1000 * occ.den)
      high == risk > 500 * occ.den
  IN  [ raised |-> FALSE,
        risk_score |-> RoundHalfEven(risk, occ.den),
        expected_er_increase_pct |-> IF high THEN 250 ELSE 100,
        expected_icu_increase_pct |-> IF high THEN 100 ELSE 50,
        is_fallback |-> TRUE ]

\* _rule_based_fallback with the supply penalty added whatever the flags.
rule_based_fallback_AlwaysPenalty(fv) ==
  LET occ == fv.icu_occupancy_pct
      base1 == 600 * occ.num + 200 * occ.den
      base2 == IF fv.is_weekend = 1 THEN base1 + 100 * occ.den ELSE base1
      risk == Min(base2, 1000 * occ.den)
      high == risk > 500 * occ.den
  IN  [ raised |-> FALSE,
        risk_score |-> RoundHalfEven(risk, occ.den),
        expected_er_increase_pct |-> IF high THEN 150 ELSE 100,
        expected_icu_increase_pct |-> IF high THEN 100 ELSE 50,
        is_fallback |-> TRUE ]

rule_based_fallback(fv) ==
  LET occ == fv.icu_occupancy_pct
      \* base_risk * 1000 * occ.den
      base0 == 600 * occ.num
      base1 == IF fv.oxygen_low = 1 \/ fv.medicine_low = 1
               THEN base0 + 200 * occ.den ELSE base0
      base2 == IF fv.is_weekend = 1 THEN base1 + 100 * occ.den ELSE base1
      risk == Min(base2, 1000 * occ.den)
      high == risk > 500 * occ.den
  IN  [ raised |-> FALSE,
        risk_score |-> RoundHalfEven(risk, occ.den),
        expected_er_increase_pct |-> IF high THEN 150 ELSE 100,
        expected_icu_increase_pct |-> IF high THEN 100 ELSE 50,
        is_fallback |-> TRUE ]

\* EmergencyModel.load_model: TRUE iff it returns without raising.
load_model(m) == m.artifact = "present"

\* EmergencyModel.predict: every failure inside is swallowed and answered
\* with the constant FALLBACK_PREDICTIONS.
EmergencyModel_predict(m, fv, reg) ==
  IF load_model(m) /\ fv.columns = FEATURE_CONTRACT /\ ~reg.raised
  THEN [ raised |-> FALSE,
         risk_score |-> reg.out[1],
         expected_er_increase_pct |-> reg.out[2],
         expected_icu_increase_pct |-> reg.out[3],
         is_fallback |-> FALSE ]
  ELSE [ raised |-> FALSE,
         risk_score |-> FALLBACK_PREDICTIONS.risk_score,
         expected_er_increase_pct |-> FALLBACK_PREDICTIONS.expected_er_increase_pct,
         expected_icu_increase_pct |-> FALLBACK_PREDICTIONS.expected_icu_increase_pct,
         is_fallback |-> TRUE ]

\* self.model.predict(feature_df) for whatever object was injected.
model_predict(m, fv, reg) ==
  IF m.kind = "raising" THEN Raised ELSE EmergencyModel_predict(m, fv, reg)

\* PredictorService.predict without the try/except around the model call.
PredictorService_predict_NoExcept(m, fv, reg) ==
  IF m.kind = "none" THEN rule_based_fallback(fv)
  ELSE model_predict(m, fv, reg)

PredictorService_predict(m, fv, reg) ==
  IF m.kind = "none" THEN rule_based_fallback(fv)
  ELSE LET predictions == model_predict(m, fv, reg)
       IN  IF predictions.raised THEN rule_based_fallback(fv)
           ELSE predictions

\* ------------------------------------------------------------------------
\* decision_logic.py
\* ------------------------------------------------------------------------
\* classify_risk_level with the Critical breakpoint made inclusive.
classify_risk_level_Inclusive(risk_score) ==
  IF risk_score >= 750 THEN "Critical"
  ELSE IF risk_score > 500 THEN "High"
  ELSE IF risk_score > 300 THEN "Elevated"
  ELSE "Normal"

classify_risk_level(risk_score) ==
  IF risk_score > 750 THEN "Critical"
  ELSE IF risk_score > 500 THEN "High"
  ELSE IF risk_score > 300 THEN "Elevated"
  ELSE "Normal"

calculate_additional_beds(total_icu_beds, expected_icu_increase_pct) ==
  LET additional == CeilDiv(total_icu_beds * expected_icu_increase_pct, 1000)
  IN  Max(0, additional)

\* The arithmetic of calculate_additional_staff is in binary floating point:
\* the pairs (daily_patients, expected_er_increase_pct) of the input domains
\* for which daily_patients * (1 + pct) / patients_per_staff, an integer when
\* computed exactly, comes out above that integer in doubles
\* (100 * (1 + 0.1) / 10 = 11.000000000000002).
DoubleAboveExact == { << 100, 100 >> }

\* np.ceil(total_expected / patients_per_staff), as the doubles give it.
ideal_staff_of(daily_patients, expected_er_increase_pct) ==
  CeilDiv(daily_patients * (1000 + expected_er_increase_pct),
          1000 * PATIENTS_PER_STAFF)
    + (IF << daily_patients, expected_er_increase_pct >> \in DoubleAboveExact
       THEN 1 ELSE 0)

\* calculate_additional_staff without the clamp at 0.
calculate_additional_staff_NoClamp(daily_patients, current_staff, expected_er_increase_pct) ==
  ideal_staff_of(daily_patients, expected_er_increase_pct) - current_staff

calculate_additional_staff(daily_patients, current_staff, expected_er_increase_pct) ==
  LET ideal_staff == ideal_staff_of(daily_patients, expected_er_increase_pct)
      additional == ideal_staff - current_staff
  IN  Max(0, additional)

\* determine_supply_status with the surge breakpoint made inclusive.
determine_supply_status_Inclusive(expected_er_increase_pct, oxygen_status, medicine_status) ==
  IF expected_er_increase_pct >= 200
     /\ (oxygen_status = "low" \/ medicine_status = "low")
  THEN "Low" ELSE "Stable"

determine_supply_status(expected_er_increase_pct, oxygen_status, medicine_status) ==
  LET high_surge == expected_er_increase_pct > 200
      supply_shortage == oxygen_status = "low" \/ medicine_status = "low"
  IN  IF high_surge /\ supply_shortage THEN "Low" ELSE "Stable"

derive_all_decisions(p, hd) ==
  [ risk_level |-> classify_risk_level(p.risk_score),
    additional_icu_beds |->
      calculate_additional_beds(hd.icu_total, p.expected_icu_increase_pct),
    additional_staff |->
      calculate_additional_staff(hd.daily_patients, hd.staff_on_duty,
                                 p.expected_er_increase_pct),
    supply_status |->
      determine_supply_status(p.expected_er_increase_pct,
                              hd.oxygen_status, hd.medicine_status) ]

\* ------------------------------------------------------------------------
\* reason_engine.py: reasons and recommendations, as tags for the strings
\* ------------------------------------------------------------------------
When(cond, tag) == IF cond THEN << tag >> ELSE << >>

\* generate_reasons with the heatwave test as a second if, not an elif.
generate_reasons_HeatwaveIf(fv, hd, ctx) ==
  LET occ == fv.icu_occupancy_pct
      temp == ctx.temp_max
      rain == ctx.rain_mm
  IN  (IF occ.num * 100 > 90 * occ.den THEN << "icu_critical" >>
       ELSE IF occ.num * 100 > 80 * occ.den THEN << "icu_high" >>
       ELSE << >>)
      \o When(temp # 0 /\ temp > 42, "extreme_heat")
      \o When(temp # 0 /\ temp > 38, "heatwave")
      \o (IF rain > 50 THEN << "extreme_rainfall" >>
          ELSE IF rain > 30 THEN << "heavy_rain" >>
          ELSE << >>)
      \o When(hd.staff_on_duty < 8, "staff_below_threshold")
      \o When(ctx.is_weekend # 0, "weekend")
      \o When(ctx.is_festival # 0, "festival")
      \o When(hd.oxygen_status = "low", "oxygen_low")
      \o When(hd.medicine_status = "low", "medicine_low")
      \o When(ctx.seasonal_illness_weight > 700, "seasonal_illness")

\* generate_reasons with the critical occupancy threshold made inclusive.
generate_reasons_CriticalInclusive(fv, hd, ctx) ==
  LET occ == fv.icu_occupancy_pct
      temp == ctx.temp_max
      rain == ctx.rain_mm
  IN  (IF occ.num * 100 >= 90 * occ.den THEN << "icu_critical" >>
       ELSE IF occ.num * 100 > 80 * occ.den THEN << "icu_high" >>
       ELSE << >>)
      \o (IF temp # 0 /\ temp > 42 THEN << "extreme_heat" >>
          ELSE IF temp # 0 /\ temp > 38 THEN << "heatwave" >>
          ELSE << >>)
      \o (IF rain > 50 THEN << "extreme_rainfall" >>
          ELSE IF rain > 30 THEN << "heavy_rain" >>
          ELSE << >>)
      \o When(hd.staff_on_duty < 8, "staff_below_threshold")
      \o When(ctx.is_weekend # 0, "weekend")
      \o When(ctx.is_festival # 0, "festival")
      \o When(hd.oxygen_status = "low", "oxygen_low")
      \o When(hd.medicine_status = "low", "medicine_low")
      \o When(ctx.seasonal_illness_weight > 700, "seasonal_illness")

generate_reasons(fv, hd, ctx) ==
  LET occ == fv.icu_occupancy_pct
      temp == ctx.temp_max
      rain == ctx.rain_mm
  IN  (IF occ.num * 100 > 90 * occ.den THEN << "icu_critical" >>
       ELSE IF occ.num * 100 > 80 * occ.den THEN << "icu_high" >>
       ELSE << >>)
      \o (IF temp # 0 /\ temp > 42 THEN << "extreme_heat" >>
          ELSE IF temp # 0 /\ temp > 38 THEN << "heatwave" >>
          ELSE << >>)
      \o (IF rain > 50 THEN << "extreme_rainfall" >>
          ELSE IF rain > 30 THEN << "heavy_rain" >>
          ELSE << >>)
      \o When(hd.staff_on_duty < 8, "staff_below_threshold")
      \o When(ctx.is_weekend # 0, "weekend")
      \o When(ctx.is_festival # 0, "festival")
      \o When(hd.oxygen_status = "low", "oxygen_low")
      \o When(hd.medicine_status = "low", "medicine_low")
      \o When(ctx.seasonal_illness_weight > 700, "seasonal_illness")

RiskLevels == {"Critical", "High", "Elevated", "Normal"}

\* base_recs.get(risk_level, []): the four protocol lines of the level's
\* row, entry n of row level being [line "protocol", level, n].
base_recs(risk_level) ==
  IF risk_level \in RiskLevels
  THEN [i \in 1..4 |-> [line |-> "protocol", level |-> risk_level, n |-> i]]
  ELSE << >>

\* get_recommendations with the two count tests made inclusive.
get_recommendations_NonNegative(risk_level, d) ==
  base_recs(risk_level)
    \o When(d.additional_icu_beds >= 0,
            [line |-> "prepare_beds", level |-> "", n |-> d.additional_icu_beds])
    \o When(d.additional_staff >= 0,
            [line |-> "summon_staff", level |-> "", n |-> d.additional_staff])
    \o When(d.supply_status = "Low",
            [line |-> "restock", level |-> "", n |-> 0])

get_recommendations(risk_level, d) ==
  base_recs(risk_level)
    \o When(d.additional_icu_beds > 0,
            [line |-> "prepare_beds", level |-> "", n |-> d.additional_icu_beds])
    \o When(d.additional_staff > 0,
            [line |-> "summon_staff", level |-> "", n |-> d.additional_staff])
    \o When(d.supply_status = "Low",
            [line |-> "restock", level |-> "", n |-> 0])

generate_explanation(fv, hd, ctx, d) ==
  [ reasons |-> generate_reasons(fv, hd, ctx),
    recommendations |-> get_recommendations(d.risk_level, d) ]

\* ------------------------------------------------------------------------
\* models/prediction.py, api/predictions.py: rows, the unique constraint
\* and the response schema
\* ------------------------------------------------------------------------
\* unique_prediction_per_hospital_per_day, left out.
UniqueViolation_NoConstraint(rows, hospital_id, date) == FALSE

\* unique_prediction_per_hospital_per_day: an INSERT for (hospital_id, date)
\* is rejected when the table already holds a row for that pair.
UniqueViolation(rows, hospital_id, date) ==
  \E row \in rows : row.hospital_id = hospital_id /\ row.date = date

\* The column values with is_fallback left at the column's default 0.
RowValues_FlagDefault(p, d, fv) ==
  [ risk_score |-> p.risk_score,
    er_surge_pct |-> p.expected_er_increase_pct,
    icu_surge_pct |-> p.expected_icu_increase_pct,
    risk_level |-> d.risk_level,
    additional_icu_beds |-> d.additional_icu_beds,
    additional_staff |-> d.additional_staff,
    supply_status |-> d.supply_status,
    input_features |-> fv,
    is_fallback |-> 0 ]

\* The column values get_predictions_and_resources writes, on insert and on
\* update alike.
RowValues(p, d, fv) ==
  [ risk_score |-> p.risk_score,
    er_surge_pct |-> p.expected_er_increase_pct,
    icu_surge_pct |-> p.expected_icu_increase_pct,
    risk_level |-> d.risk_level,
    additional_icu_beds |-> d.additional_icu_beds,
    additional_staff |-> d.additional_staff,
    supply_status |-> d.supply_status,
    input_features |-> fv,
    is_fallback |-> IF p.is_fallback THEN 1 ELSE 0 ]

\* DailyPredictionResponse accepts the result (ge=0, le=1 on the three
\* numbers, ge=0 on the two counts).
ResponseValid(p, d) ==
  /\ p.risk_score \in 0..1000
  /\ p.expected_er_increase_pct \in 0..1000
  /\ p.expected_icu_increase_pct \in 0..1000
  /\ d.additional_icu_beds >= 0
  /\ d.additional_staff >= 0

\* ------------------------------------------------------------------------
\* main.py: the model handle injected at startup
\* ------------------------------------------------------------------------
NoModel == [kind |-> "none", artifact |-> "n/a"]

\* startup_event: ml_model is bound to the wrapper before load_model runs, so
\* the wrapper is injected whether or not the artifact could be loaded.
startup_event(artifact) == [kind |-> "wrapper", artifact |-> artifact]

\* ------------------------------------------------------------------------
\* State
\* ------------------------------------------------------------------------
VARIABLES
  global_model,     \* the object handed to PredictorService
  regressor,        \* what the trained regressor does when called
  hospital_data,    \* the snapshot under evaluation
  backend_context,  \* weather + calendar + seasonal enrichment
  feature_vector,   \* the assembled ordered vector
  ml_predictions,   \* result of PredictorService.predict
  decisions,        \* result of derive_all_decisions
  explanation,      \* the reasons and recommendations generated
  step,             \* position in the evaluation
  now,              \* the clock, in seconds
  memory_cache,     \* CacheService._memory_cache
  cached_data,      \* the cached_data table, by cache_key
  api_key_set,      \* whether EnrichmentService.api_key is set
  last_write,       \* per key, the last set or delete issued for it
  last_call,        \* the last cache or weather call and what it returned
  predictions,      \* the predictions table: a set of rows
  req,              \* per request: where it stands and what it holds
  last_commit       \* per (hospital, date): the request that committed last

predVars ==
  << global_model, regressor, hospital_data, backend_context, feature_vector,
     ml_predictions, decisions, explanation, step >>

cacheVars ==
  << now, memory_cache, cached_data, api_key_set, last_write, last_call >>

pipeVars == << predictions, req, last_commit >>

vars == << predVars, cacheVars, pipeVars >>

Contexts ==
  { [ temp_max |-> w.temp_max, rain_mm |-> w.rain_mm,
      weather_severity |-> w.weather_severity,
      is_weekend |-> we, is_festival |-> 0, seasonal_illness_weight |-> 300 ] :
    w \in {[temp_max |-> 20, rain_mm |-> 0, weather_severity |-> 400]},
    we \in {0, 1} }

NoVector == OrderedFeatures(
  derive_fields([icu_occupied |-> 0, icu_total |-> 1, daily_patients |-> 0,
                 staff_on_duty |-> 0, oxygen_status |-> "normal",
                 medicine_status |-> "normal"]),
  [temp_max |-> 0, rain_mm |-> 0, weather_severity |-> 0],
  [is_weekend |-> 0, is_festival |-> 0],
  [seasonal_illness_weight |-> 0])

NoPrediction ==
  [ raised |-> FALSE, risk_score |-> 0, expected_er_increase_pct |-> 0,
    expected_icu_increase_pct |-> 0, is_fallback |-> FALSE ]

NoDecisions ==
  [ risk_level |-> "Normal", additional_icu_beds |-> 0, additional_staff |-> 0,
    supply_status |-> "Stable" ]

NoExplanation == [reasons |-> << >>, recommendations |-> << >>]

EmptyMap == [k \in {} |-> 0]

InitPredVars ==
  /\ global_model = NoModel
  /\ regressor = [raised |-> FALSE, out |-> <<0, 0, 0>>]
  /\ hospital_data = [icu_occupied |-> 0, icu_total |-> 1, daily_patients |-> 0,
                      staff_on_duty |-> 0, oxygen_status |-> "normal",
                      medicine_status |-> "normal"]
  /\ backend_context \in {c \in Contexts : c.is_weekend = 0}
  /\ feature_vector = NoVector
  /\ ml_predictions = NoPrediction
  /\ decisions = NoDecisions
  /\ explanation = NoExplanation
  /\ step = "input"

NumReq == 2
NumHospitals == 2

Requests == 1..NumReq
Hospitals == 1..NumHospitals

IdleRequest ==
  [ pc |-> "idle", hospital_id |-> 0,
    hospital_data |-> [icu_occupied |-> 0, icu_total |-> 1, daily_patients |-> 0,
                       staff_on_duty |-> 0, oxygen_status |-> "normal",
                       medicine_status |-> "normal"],
    backend_context |-> [temp_max |-> 0, rain_mm |-> 0, weather_severity |-> 0,
                         is_weekend |-> 0, is_festival |-> 0,
                         seasonal_illness_weight |-> 0],
    feature_vector |-> NoVector, ml_predictions |-> NoPrediction,
    decisions |-> NoDecisions,
    explanation |-> NoExplanation,
    today |-> 0, existing |-> 0, pending |-> "none", error |-> "",
    attempts |-> 0,      \* calls of db.commit() made for the request
    context_by |-> 0,    \* hospital whose request drew the context's weather
    vector_by |-> 0,     \* hospital whose request drew the vector's weather
    http_status |-> 0 ]  \* status of the response sent, 0 while none is

InitPipeVars ==
  /\ predictions = {}
  /\ req = [r \in Requests |-> IdleRequest]
  /\ last_commit = EmptyMap

InitCacheVars ==
  /\ now = 0
  /\ memory_cache = EmptyMap
  /\ cached_data = EmptyMap
  /\ api_key_set = TRUE
  /\ last_write = EmptyMap
  /\ last_call = [op |-> "none"]

\* ------------------------------------------------------------------------
\* Evaluation of one snapshot: assemble, predict, decide
\* ------------------------------------------------------------------------
InitPredict ==
  /\ InitCacheVars
  /\ InitPipeVars
  /\ global_model \in ModelKinds
  /\ regressor \in RegOutcomes
  /\ (global_model # startup_event("present")
        => regressor = [raised |-> FALSE, out |-> <<0, 0, 0>>])
  /\ hospital_data \in Snapshots
  /\ backend_context \in Contexts
  /\ feature_vector = NoVector
  /\ ml_predictions = NoPrediction
  /\ decisions = NoDecisions
  /\ explanation = NoExplanation
  /\ step = "input"

Assemble ==
  /\ step = "input"
  /\ feature_vector' =
       OrderedFeatures(derive_fields(hospital_data), backend_context,
                       backend_context, backend_context)
  /\ step' = "assembled"
  /\ UNCHANGED << global_model, regressor, hospital_data, backend_context,
                  ml_predictions, decisions, explanation >>
  /\ UNCHANGED << cacheVars, pipeVars >>

Predict ==
  /\ step = "assembled"
  /\ ml_predictions' =
       PredictorService_predict(global_model, feature_vector, regressor)
  /\ step' = "predicted"
  /\ UNCHANGED << global_model, regressor, hospital_data, backend_context,
                  feature_vector, decisions, explanation >>
  /\ UNCHANGED << cacheVars, pipeVars >>

Decide ==
  /\ step = "predicted"
  /\ ~ml_predictions.raised
  /\ decisions' = derive_all_decisions(ml_predictions, hospital_data)
  /\ step' = "decided"
  /\ UNCHANGED << global_model, regressor, hospital_data, backend_context,
                  feature_vector, ml_predictions, explanation >>
  /\ UNCHANGED << cacheVars, pipeVars >>

\* STEPS 4-5 of get_predictions_and_resources.
Explain ==
  /\ step = "decided"
  /\ explanation' = generate_explanation(feature_vector, hospital_data,
                                         backend_context, decisions)
  /\ step' = "explained"
  /\ UNCHANGED << global_model, regressor, hospital_data, backend_context,
                  feature_vector, ml_predictions, decisions >>
  /\ UNCHANGED << cacheVars, pipeVars >>

NextPredict == Assemble \/ Predict \/ Decide \/ Explain

SpecPredict == InitPredict /\ [][NextPredict]_vars

\* The same evaluation with no model injected, over snapshots and contexts
\* on both sides of every threshold of the reason engine.
ExplainSnapshots ==
  { [ icu_occupied |-> o, icu_total |-> 40, daily_patients |-> p,
      staff_on_duty |-> s, oxygen_status |-> ox, medicine_status |-> md ] :
    o \in {12, 32, 33, 36, 37}, p \in {100, 120}, s \in {7, 8, 14},
    ox \in StatusVals, md \in StatusVals }

ExplainContexts ==
  { [ temp_max |-> t, rain_mm |-> r, weather_severity |-> 400,
      is_weekend |-> we, is_festival |-> f, seasonal_illness_weight |-> w ] :
    t \in {25, 38, 39, 42, 43}, r \in {0, 30, 31, 50, 60},
    we \in {0, 1}, f \in {0, 1}, w \in {300, 700, 800} }

InitExplain ==
  /\ InitCacheVars
  /\ InitPipeVars
  /\ global_model = NoModel
  /\ regressor = [raised |-> FALSE, out |-> <<0, 0, 0>>]
  /\ hospital_data \in ExplainSnapshots
  /\ backend_context \in ExplainContexts
  /\ feature_vector = NoVector
  /\ ml_predictions = NoPrediction
  /\ decisions = NoDecisions
  /\ explanation = NoExplanation
  /\ step = "input"

SpecExplain == InitExplain /\ [][NextPredict]_vars

\* ------------------------------------------------------------------------
\* assemble_features on dicts: snapshots with any of the raw fields absent,
\* and enrichment results as the cache may hold them (items in another
\* order, an item absent, an item too many)
\* ------------------------------------------------------------------------
RawItems ==
  << [k |-> "icu_occupied", v |-> 3], [k |-> "icu_total", v |-> 4],
     [k |-> "daily_patients", v |-> 120], [k |-> "staff_on_duty", v |-> 12],
     [k |-> "oxygen_status", v |-> "low"],
     [k |-> "medicine_status", v |-> "normal"] >>

Reverse(seq) == [i \in 1..Len(seq) |-> seq[Len(seq) + 1 - i]]

SnapshotDicts ==
  { SelectSeq(RawItems, LAMBDA it : it.k \in keys) :
      keys \in SUBSET { RawItems[i].k : i \in 1..Len(RawItems) } }
    \cup { Reverse(RawItems),
           \* combined_data = {**hospital_data, **backend_context}
           RawItems \o << [k |-> "temp_max", v |-> 20] >> }

WeatherDicts ==
  { << [k |-> "temp_max", v |-> 44], [k |-> "rain_mm", v |-> 50],
       [k |-> "weather_severity", v |-> 400] >>,
    << [k |-> "weather_severity", v |-> 400], [k |-> "temp_max", v |-> 44],
       [k |-> "rain_mm", v |-> 50] >>,
    << [k |-> "temp_max", v |-> 44], [k |-> "weather_severity", v |-> 400] >>,
    << [k |-> "humidity", v |-> 70], [k |-> "temp_max", v |-> 44],
       [k |-> "rain_mm", v |-> 50], [k |-> "weather_severity", v |-> 400] >> }

CalendarDicts ==
  { << [k |-> "is_weekend", v |-> 1], [k |-> "is_festival", v |-> 0] >>,
    << [k |-> "is_festival", v |-> 0], [k |-> "is_weekend", v |-> 1] >>,
    << [k |-> "is_weekend", v |-> 1] >> }

SeasonalDicts ==
  { << [k |-> "seasonal_illness_weight", v |-> 800] >>, << >> }

InitAssemble ==
  /\ InitCacheVars
  /\ InitPipeVars
  /\ global_model = NoModel
  /\ regressor = [raised |-> FALSE, out |-> <<0, 0, 0>>]
  /\ hospital_data \in SnapshotDicts
  /\ backend_context \in
       [weather : WeatherDicts, calendar : CalendarDicts,
        seasonal : SeasonalDicts]
  /\ feature_vector = NoVector
  /\ ml_predictions = NoPrediction
  /\ decisions = NoDecisions
  /\ explanation = NoExplanation
  /\ step = "input"

AssembleDict ==
  /\ step = "input"
  /\ feature_vector' =
       assemble_features(hospital_data, backend_context.weather,
                         backend_context.calendar, backend_context.seasonal)
  /\ step' = "assembled"
  /\ UNCHANGED << global_model, regressor, hospital_data, backend_context,
                  ml_predictions, decisions, explanation >>
  /\ UNCHANGED << cacheVars, pipeVars >>

NextAssemble == AssembleDict

SpecAssemble == InitAssemble /\ [][NextAssemble]_vars

\* ------------------------------------------------------------------------
\* get_recommendations on its own: the decisions dict is the argument
\* ------------------------------------------------------------------------
\* The decisions derive_all_decisions can hand over: any of the four levels
\* with counts of zero or more and either supply status (the level depends
\* on risk_score only, the counts and the status on the two increases).
DecisionDicts ==
  [ risk_level : RiskLevels, additional_icu_beds : {0, 1, 3},
    additional_staff : {0, 2, 5}, supply_status : {"Stable", "Low"} ]

InitRecommend ==
  /\ InitCacheVars
  /\ InitPipeVars
  /\ global_model = NoModel
  /\ regressor = [raised |-> FALSE, out |-> <<0, 0, 0>>]
  /\ hospital_data = CHOOSE s \in Snapshots : TRUE
  /\ backend_context = CHOOSE c \in Contexts : TRUE
  /\ feature_vector = NoVector
  /\ ml_predictions = NoPrediction
  /\ decisions \in DecisionDicts
  /\ explanation = NoExplanation
  /\ step = "decided"

Recommend ==
  /\ step = "decided"
  /\ explanation' =
       [ reasons |-> << >>,
         recommendations |->
           get_recommendations(decisions.risk_level, decisions) ]
  /\ step' = "recommended"
  /\ UNCHANGED << global_model, regressor, hospital_data, backend_context,
                  feature_vector, ml_predictions, decisions >>
  /\ UNCHANGED << cacheVars, pipeVars >>

NextRecommend == Recommend

SpecRecommend == InitRecommend /\ [][NextRecommend]_vars

\* ------------------------------------------------------------------------
\* The cache and the weather service, called in any order as time passes
\* ------------------------------------------------------------------------
MaxNow == 90
TickSteps == {30}
CacheTtls == {0, 60}

CacheKeys == {WeatherKey(c, 0) : c \in Cities}
CacheValues == {process_weather_data(r) : r \in ApiReadings}

InitCache == InitPredVars /\ InitCacheVars /\ InitPipeVars

Tick ==
  /\ \E d \in TickSteps : now + d <= MaxNow /\ now' = now + d
  /\ UNCHANGED << memory_cache, cached_data, api_key_set, last_write, last_call >>
  /\ UNCHANGED << predVars, pipeVars >>

SetApiKey ==
  /\ \E b \in BOOLEAN : b # api_key_set /\ api_key_set' = b
  /\ UNCHANGED << now, memory_cache, cached_data, last_write, last_call >>
  /\ UNCHANGED << predVars, pipeVars >>

Get(key) ==
  LET r == CacheGet(memory_cache, cached_data, key, now)
  IN  /\ memory_cache' = r.mem
      /\ cached_data' = r.db
      /\ last_call' = [op |-> "get", key |-> key, at |-> now,
                       found |-> r.found, tier |-> r.tier,
                       value |-> IF r.found THEN <<r.value>> ELSE <<>>,
                       \* whether the call before this one was delete(key)
                       after_delete |-> last_call.op = "delete"
                                          /\ last_call.key = key]
      /\ UNCHANGED << now, api_key_set, last_write >>
      /\ UNCHANGED << predVars, pipeVars >>

Set(key, value, ttl) ==
  LET r == CacheSet(memory_cache, cached_data, key, value, ttl, now)
  IN  /\ memory_cache' = r.mem
      /\ cached_data' = r.db
      /\ last_write' = Put(last_write, key,
                           [op |-> "set", value |-> value, ttl |-> ttl, at |-> now])
      /\ last_call' = [op |-> "set", key |-> key]
      /\ UNCHANGED << now, api_key_set >>
      /\ UNCHANGED << predVars, pipeVars >>

Delete(key) ==
  LET r == CacheDelete(memory_cache, cached_data, key)
  IN  /\ memory_cache' = r.mem
      /\ cached_data' = r.db
      /\ last_write' = Remove(last_write, key)
      /\ last_call' = [op |-> "delete", key |-> key]
      /\ UNCHANGED << now, api_key_set >>
      /\ UNCHANGED << predVars, pipeVars >>

ClearExpired ==
  LET r == CacheClearExpired(memory_cache, cached_data, now)
  IN  /\ memory_cache' = r.mem
      /\ cached_data' = r.db
      /\ last_call' = [op |-> "clear_expired", expired_count |-> r.expired_count]
      /\ UNCHANGED << now, api_key_set, last_write >>
      /\ UNCHANGED << predVars, pipeVars >>

TodayWeather(city, use_db, outcome, reading) ==
  LET key == WeatherKey(city, now)
      r == get_today_weather(memory_cache, cached_data, use_db, city, now,
                             api_key_set, outcome, reading)
      stored == key \in DOMAIN r.mem /\ r.fetched /\ ~r.raised
                  /\ r.mem[key].expires_at = now + WEATHER_TTL
  IN  /\ memory_cache' = r.mem
      /\ cached_data' = r.db
      /\ last_write' =
           IF stored
           THEN Put(last_write, key, [op |-> "set", value |-> r.mem[key].value,
                                      ttl |-> WEATHER_TTL, at |-> now])
           ELSE last_write
      /\ last_call' = [op |-> "get_today_weather", key |-> key,
                       use_db |-> use_db,
                       fetched |-> r.fetched,
                       outcome |-> outcome,
                       failed |-> r.fetched /\ (~api_key_set \/ outcome # "ok"),
                       raised |-> r.raised,
                       result |-> IF r.raised THEN <<>> ELSE <<r.result>>]
      /\ UNCHANGED << now, api_key_set >>
      /\ UNCHANGED << predVars, pipeVars >>

\* The process restarts: cache_service is constructed anew with an empty
\* _memory_cache, and the cached_data table is as it was.
Restart ==
  /\ memory_cache # EmptyMap
  /\ memory_cache' = EmptyMap
  /\ UNCHANGED << now, cached_data, api_key_set, last_write, last_call >>
  /\ UNCHANGED << predVars, pipeVars >>

NextCache ==
  \/ Tick
  \/ Restart
  \/ \E key \in CacheKeys : Get(key)
  \/ \E key \in CacheKeys, value \in CacheValues, ttl \in CacheTtls :
       Set(key, value, ttl)
  \/ \E key \in CacheKeys : Delete(key)
  \/ ClearExpired

SpecCache == InitCache /\ [][NextCache]_vars

\* The weather service over two calendar days, with the API succeeding,
\* failing or timing out and the API key set or unset.
MaxDate == 1

HalfDay ==
  /\ now + 12 * 60 * 60 <= MaxDate * 24 * 60 * 60
  /\ now' = now + 12 * 60 * 60
  /\ UNCHANGED << memory_cache, cached_data, api_key_set, last_write, last_call >>
  /\ UNCHANGED << predVars, pipeVars >>

NextWeather ==
  \/ HalfDay
  \/ SetApiKey
  \/ \E city \in Cities, use_db \in BOOLEAN, outcome \in FetchOutcomes,
        reading \in ApiReadings :
       TodayWeather(city, use_db, outcome, reading)
  \/ \E city \in Cities : Delete(WeatherKey(city, now))

SpecWeather == InitCache /\ [][NextWeather]_vars

\* ------------------------------------------------------------------------
\* _process_weather_data on its own: the reading is the argument
\* ------------------------------------------------------------------------
MaxTemp == 58
MaxRain == 55

\* Readings of the API, on both sides of 35 degrees and 5 mm and up to
\* where either penalty alone reaches the cap.
SeverityReadings ==
  { [temp_max |-> t, rain_mm |-> r] : t \in (0 - 5)..MaxTemp, r \in 0..MaxRain }

InitSeverity ==
  /\ InitPredVars
  /\ InitPipeVars
  /\ now = 0
  /\ memory_cache = EmptyMap
  /\ cached_data = EmptyMap
  /\ api_key_set = TRUE
  /\ last_write = EmptyMap
  /\ \E reading \in SeverityReadings :
       last_call = [op |-> "reading", data |-> reading]

ProcessWeather ==
  /\ last_call.op = "reading"
  /\ last_call' = [op |-> "_process_weather_data", data |-> last_call.data,
                   result |-> process_weather_data(last_call.data)]
  /\ UNCHANGED << now, memory_cache, cached_data, api_key_set, last_write >>
  /\ UNCHANGED << predVars, pipeVars >>

NextSeverity == ProcessWeather

SpecSeverity == InitSeverity /\ [][NextSeverity]_vars


\* ------------------------------------------------------------------------
\* The prediction requests (predict_daily): each request runs its stages in
\* order; requests interleave between stages, and days pass.
\* ------------------------------------------------------------------------
PipeModels ==
  { m \in ModelKinds : m.artifact \in {"n/a", "present"} }

PipeRegOutcomes ==
  { [raised |-> FALSE, out |-> <<751, 201, 250>>],
    [raised |-> TRUE, out |-> <<0, 0, 0>>] }

\* Hospital.icu_total_capacity of the registered hospitals (ge=1, default 40).
icu_total_capacity(h) == IF h = 1 THEN 30 ELSE 40

\* STEP 1 of predict_daily: the hospital's daily status.
predict_daily_hospital_data(h) ==
  [ icu_occupied |-> 30, icu_total |-> icu_total_capacity(h),
    daily_patients |-> 120, staff_on_duty |-> 12,
    oxygen_status |-> "normal", medicine_status |-> "normal" ]

\* What the simulated weather call of enrich_weather may draw.
PipeSimWeather ==
  { [temp_max |-> 44, rain_mm |-> 50, weather_severity |-> 400],
    [temp_max |-> 20, rain_mm |-> 0, weather_severity |-> 400] }

InitPipe ==
  /\ InitCacheVars
  /\ InitPipeVars
  /\ global_model \in PipeModels
  /\ regressor \in PipeRegOutcomes
  /\ (global_model # startup_event("present")
        => regressor = [raised |-> FALSE, out |-> <<751, 201, 250>>])
  /\ hospital_data = IdleRequest.hospital_data
  /\ backend_context = IdleRequest.backend_context
  /\ feature_vector = NoVector
  /\ ml_predictions = NoPrediction
  /\ decisions = NoDecisions
  /\ explanation = NoExplanation
  /\ step = "input"

pipeFrame == << predVars, now, api_key_set, last_write, last_call >>

enrichFrame == << predVars, now, api_key_set, last_call >>

\* The hospital whose request drew the weather reading that enrich_weather
\* handed to a request of hospital h: h itself when the reading was drawn
\* now, the writer of the cache entry when it was served from the cache.
DrawnBy(w, h) ==
  IF w.cached THEN last_write[DayKey("weather", now)].by ELSE h

\* The record of who wrote the weather entry, kept when enrich_weather
\* sets it.
NoteWeatherSet(w, h, sim) ==
  IF w.cached THEN last_write
  ELSE Put(last_write, DayKey("weather", now),
           [op |-> "set", value |-> sim, ttl |-> CACHE_TTL, at |-> now,
            by |-> h])

\* except Exception: raise HTTPException(status_code=500, ...)
Failed(q, why) ==
  [q EXCEPT !.pc = "error", !.error = why, !.http_status = 500]

Fail(r, why) == req' = [req EXCEPT ![r] = Failed(req[r], why)]

\* A request of hospital h arrives: the handler builds the service and the
\* hospital's daily status.
Begin(r, h) ==
  /\ req[r].pc = "idle"
  /\ IF r = 1 THEN TRUE ELSE req[r - 1].pc # "idle"
  /\ req' = [req EXCEPT ![r].pc = "enrich", ![r].hospital_id = h,
                        ![r].hospital_data = predict_daily_hospital_data(h)]
  /\ UNCHANGED << pipeFrame, memory_cache, cached_data, predictions, last_commit >>

\* assemble_backend_context
EnrichContext(r, sim) ==
  /\ req[r].pc = "enrich"
  /\ \E w \in {enrich_weather(memory_cache, cached_data, now, sim)} :
     \E c \in {enrich_calendar(w.mem, w.db, now)} :
     \E e \in {enrich_all(w, c, now)} :
         /\ memory_cache' = e.mem
         /\ cached_data' = e.db
         /\ last_write' = NoteWeatherSet(w, req[r].hospital_id, sim)
         /\ req' = [req EXCEPT
              ![r].pc = "assemble",
              ![r].context_by = DrawnBy(w, req[r].hospital_id),
              ![r].backend_context =
                 [ temp_max |-> e.weather.temp_max,
                   rain_mm |-> e.weather.rain_mm,
                   weather_severity |-> e.weather.weather_severity,
                   is_weekend |-> e.calendar.is_weekend,
                   is_festival |-> e.calendar.is_festival,
                   seasonal_illness_weight |->
                     e.seasonal.seasonal_illness_weight ]]
  /\ UNCHANGED << enrichFrame, predictions, last_commit >>

\* STEP 1 of get_predictions_and_resources: assemble_features derives the
\* hospital fields, enriches once more, merges and orders.
AssembleFeatures(r, sim) ==
  /\ req[r].pc = "assemble"
  /\ \E w \in {enrich_weather(memory_cache, cached_data, now, sim)} :
     \E c \in {enrich_calendar(w.mem, w.db, now)} :
     \E e \in {enrich_all(w, c, now)} :
         /\ memory_cache' = e.mem
         /\ cached_data' = e.db
         /\ last_write' = NoteWeatherSet(w, req[r].hospital_id, sim)
         /\ req' = [req EXCEPT
              ![r].pc = "infer",
              ![r].vector_by = DrawnBy(w, req[r].hospital_id),
              ![r].feature_vector =
                 OrderedFeatures(derive_fields(req[r].hospital_data),
                                 e.weather, e.calendar, e.seasonal)]
  /\ UNCHANGED << enrichFrame, predictions, last_commit >>

\* STEPS 2-5: inference, decisions, explanation. An exception of any of
\* them leaves the handler as an error.
Infer(r) ==
  /\ req[r].pc = "infer"
  /\ \E q \in {req[r]} :
     \E p \in {PredictorService_predict(global_model, q.feature_vector,
                                        regressor)} :
     \E d \in {IF p.raised THEN NoDecisions
                ELSE derive_all_decisions(p, q.hospital_data)} :
         IF p.raised
         THEN Fail(r, "model")
         ELSE req' = [req EXCEPT
                ![r].pc = "lookup",
                ![r].ml_predictions = p,
                ![r].decisions = d,
                ![r].explanation =
                   generate_explanation(q.feature_vector, q.hospital_data,
                                        q.backend_context, d)]
  /\ UNCHANGED << pipeFrame, memory_cache, cached_data, predictions, last_commit >>

\* STEP 6, first half: today = Date.today(); existing = query.first(); then
\* either the existing row's attributes are set or a new row is added to the
\* session. Nothing reaches the table before the commit.
Lookup(r) ==
  /\ req[r].pc = "lookup"
  /\ \E today \in {DateOf(now)} :
     \E found \in {{ row \in predictions :
                      row.hospital_id = req[r].hospital_id /\ row.date = today }} :
         req' = [req EXCEPT
           ![r].pc = "commit",
           ![r].today = today,
           ![r].existing =
              IF found = {} THEN 0 ELSE (CHOOSE row \in found : TRUE).id,
           ![r].pending = IF found = {} THEN "insert" ELSE "update"]
  /\ UNCHANGED << pipeFrame, memory_cache, cached_data, predictions, last_commit >>

\* The persistence step with one more try after a failed commit.
Commit_RetryOnce(r, db_ok) ==
  /\ req[r].pc = "commit"
  /\ \E q \in {[req[r] EXCEPT !.attempts = @ + 1]} :
     \E values \in {RowValues(q.ml_predictions, q.decisions, q.feature_vector)} :
     \E key \in {<< q.hospital_id, q.today >>} :
         IF ~db_ok
         THEN /\ req' = [req EXCEPT ![r] =
                          IF q.attempts < 2 THEN q
                          ELSE Failed(q, "OperationalError")]
              /\ UNCHANGED << predictions, last_commit >>
         ELSE IF q.pending = "insert"
                 /\ UniqueViolation(predictions, q.hospital_id, q.today)
         THEN /\ req' = [req EXCEPT ![r] = Failed(q, "IntegrityError")]
              /\ UNCHANGED << predictions, last_commit >>
         ELSE /\ predictions' =
                   IF q.pending = "insert"
                   THEN predictions \cup
                          { [ id |-> Cardinality(predictions) + 1,
                              hospital_id |-> q.hospital_id,
                              date |-> q.today, values |-> values ] }
                   ELSE { IF row.id = q.existing
                          THEN [row EXCEPT !.values = values] ELSE row :
                          row \in predictions }
              /\ last_commit' = Put(last_commit, key, r)
              /\ req' = [req EXCEPT ![r] = [q EXCEPT !.pc = "respond"]]
  /\ UNCHANGED << pipeFrame, memory_cache, cached_data >>

\* STEP 6, second half: db.commit(), called once. The pending INSERT or
\* UPDATE reaches the table, unless the database is unavailable or the unique
\* constraint rejects the INSERT; the exception then leaves the handler.
Commit(r, db_ok) ==
  /\ req[r].pc = "commit"
  /\ \E q \in {[req[r] EXCEPT !.attempts = @ + 1]} :
     \E values \in {RowValues(q.ml_predictions, q.decisions, q.feature_vector)} :
     \E key \in {<< q.hospital_id, q.today >>} :
         IF ~db_ok
         THEN /\ req' = [req EXCEPT ![r] = Failed(q, "OperationalError")]
              /\ UNCHANGED << predictions, last_commit >>
         ELSE IF q.pending = "insert"
                 /\ UniqueViolation(predictions, q.hospital_id, q.today)
         THEN /\ req' = [req EXCEPT ![r] = Failed(q, "IntegrityError")]
              /\ UNCHANGED << predictions, last_commit >>
         ELSE /\ predictions' =
                   IF q.pending = "insert"
                   THEN predictions \cup
                          { [ id |-> Cardinality(predictions) + 1,
                              hospital_id |-> q.hospital_id,
                              date |-> q.today, values |-> values ] }
                   ELSE { IF row.id = q.existing
                          THEN [row EXCEPT !.values = values] ELSE row :
                          row \in predictions }
              /\ last_commit' = Put(last_commit, key, r)
              /\ req' = [req EXCEPT ![r] = [q EXCEPT !.pc = "respond"]]
  /\ UNCHANGED << pipeFrame, memory_cache, cached_data >>

\* The response built and returned while the commit is still to be made.
Respond_BeforeCommit(r) ==
  /\ req[r].pc \in {"commit", "respond"}
  /\ IF ResponseValid(req[r].ml_predictions, req[r].decisions)
     THEN req' = [req EXCEPT ![r].pc = "done", ![r].http_status = 200]
     ELSE Fail(r, "ValidationError")
  /\ UNCHANGED << pipeFrame, memory_cache, cached_data, predictions, last_commit >>

\* STEP 7: build the response, validated against DailyPredictionResponse.
Respond(r) ==
  /\ req[r].pc = "respond"
  /\ IF ResponseValid(req[r].ml_predictions, req[r].decisions)
     THEN req' = [req EXCEPT ![r].pc = "done", ![r].http_status = 200]
     ELSE Fail(r, "ValidationError")
  /\ UNCHANGED << pipeFrame, memory_cache, cached_data, predictions, last_commit >>

\* The steps of a handler that has started.
Advance(r) ==
  \/ \E sim \in PipeSimWeather : EnrichContext(r, sim)
  \/ \E sim \in PipeSimWeather : AssembleFeatures(r, sim)
  \/ Infer(r)
  \/ Lookup(r)
  \/ \E db_ok \in BOOLEAN : Commit(r, db_ok)
  \/ Respond(r)

NextPipe ==
  \/ HalfDay
  \/ \E r \in Requests, h \in Hospitals : Begin(r, h)
  \/ \E r \in Requests : Advance(r)

SpecPipe == InitPipe /\ [][NextPipe]_vars

\* A handler that has started runs to its end.
FairPipe == SpecPipe /\ \A r \in Requests : WF_vars(Advance(r))

\* ------------------------------------------------------------------------
\* get_predictions_and_resources called with a snapshot dict that may lack
\* raw fields, on the shared cache and the predictions table
\* ------------------------------------------------------------------------
\* The snapshot dict read as a record, once the six raw fields are there.
AsSnapshot(hd) ==
  [ icu_occupied |-> DictGet(hd, "icu_occupied"),
    icu_total |-> DictGet(hd, "icu_total"),
    daily_patients |-> DictGet(hd, "daily_patients"),
    staff_on_duty |-> DictGet(hd, "staff_on_duty"),
    oxygen_status |-> DictGet(hd, "oxygen_status"),
    medicine_status |-> DictGet(hd, "medicine_status") ]

\* The weather and calendar enrichments of one assemble call: what they
\* returned, the tiers afterwards and the cache_service calls made.
enrich_both(mem, db, t, sim) ==
  LET w == enrich_weather(mem, db, t, sim)
      c == enrich_calendar(w.mem, w.db, t)
  IN  [ e |-> enrich_all(w, c, t),
        cache_calls |-> (IF w.cached THEN 1 ELSE 2)
                          + (IF c.cached THEN 1 ELSE 2) ]

\* assemble_features with the enrichment run ahead of the validation.
assemble_features_call_EnrichFirst(hd, mem, db, t, sim) ==
  LET checked == validate_hospital_data(hd)
      b == enrich_both(mem, db, t, sim)
  IN  IF checked.raised
      THEN [ raised |-> TRUE, error |-> checked.error,
             missing |-> checked.missing, cache_calls |-> b.cache_calls,
             mem |-> b.e.mem, db |-> b.e.db, vector |-> NoVector ]
      ELSE [ raised |-> FALSE, error |-> "", missing |-> << >>,
             cache_calls |-> b.cache_calls, mem |-> b.e.mem, db |-> b.e.db,
             vector |-> OrderedFeatures(derive_fields(AsSnapshot(hd)),
                                        b.e.weather, b.e.calendar,
                                        b.e.seasonal) ]

\* assemble_features(hospital_data, db) at time t on the cache (mem, db):
\* validation first, then derive, enrich, merge and order.
assemble_features_call(hd, mem, db, t, sim) ==
  LET checked == validate_hospital_data(hd)
  IN  IF checked.raised
      THEN [ raised |-> TRUE, error |-> checked.error,
             missing |-> checked.missing, cache_calls |-> 0,
             mem |-> mem, db |-> db, vector |-> NoVector ]
      ELSE LET b == enrich_both(mem, db, t, sim)
           IN  [ raised |-> FALSE, error |-> "", missing |-> << >>,
                 cache_calls |-> b.cache_calls, mem |-> b.e.mem,
                 db |-> b.e.db,
                 vector |-> OrderedFeatures(derive_fields(AsSnapshot(hd)),
                                            b.e.weather, b.e.calendar,
                                            b.e.seasonal) ]

\* The hospital the calls are made for.
OrchHospital == 1

\* The snapshots the calls are made with: complete ones, those lacking one
\* raw field, and the one lacking all six.
OrchSnapshotDicts ==
  { hd \in SnapshotDicts :
      Len(validate_hospital_data(hd).missing) \in {0, 1, 6} }

InitOrchestrate ==
  /\ InitCacheVars
  /\ InitPipeVars
  /\ global_model = NoModel
  /\ regressor = [raised |-> FALSE, out |-> <<0, 0, 0>>]
  /\ hospital_data \in OrchSnapshotDicts
  /\ backend_context = IdleRequest.backend_context
  /\ feature_vector = NoVector
  /\ ml_predictions = NoPrediction
  /\ decisions = NoDecisions
  /\ explanation = NoExplanation
  /\ step = "input"

\* The caller's assemble_backend_context, made before the service call.
ContextFirst(sim) ==
  /\ step = "input"
  /\ \E b \in {enrich_both(memory_cache, cached_data, now, sim)} :
       /\ memory_cache' = b.e.mem
       /\ cached_data' = b.e.db
       /\ backend_context' =
            [ temp_max |-> b.e.weather.temp_max,
              rain_mm |-> b.e.weather.rain_mm,
              weather_severity |-> b.e.weather.weather_severity,
              is_weekend |-> b.e.calendar.is_weekend,
              is_festival |-> b.e.calendar.is_festival,
              seasonal_illness_weight |-> b.e.seasonal.seasonal_illness_weight ]
  /\ step' = "context"
  /\ UNCHANGED << global_model, regressor, hospital_data, feature_vector,
                  ml_predictions, decisions, explanation >>
  /\ UNCHANGED << now, api_key_set, last_write, last_call, pipeVars >>

\* get_predictions_and_resources(hospital_data, backend_context,
\* hospital_id, db), the whole call: assemble, predict, decide, explain,
\* upsert and commit. An exception leaves the call at the point it is
\* raised.
Orchestrate(sim, db_ok) ==
  /\ step = "context"
  /\ \E a \in {assemble_features_call(hospital_data, memory_cache,
                                       cached_data, now, sim)} :
       /\ memory_cache' = a.mem
       /\ cached_data' = a.db
       /\ IF a.raised
          THEN /\ last_call' = [op |-> "get_predictions_and_resources",
                                raised |-> TRUE, error |-> a.error,
                                missing |-> a.missing,
                                cache_calls |-> a.cache_calls]
               /\ step' = "raised"
               /\ UNCHANGED << feature_vector, ml_predictions, decisions,
                               explanation, predictions >>
          ELSE \E hd \in {AsSnapshot(hospital_data)} :
               \E p \in {PredictorService_predict(global_model, a.vector,
                                                  regressor)} :
               \E d \in {derive_all_decisions(p, hd)} :
               \E found \in {{ row \in predictions :
                                 /\ row.hospital_id = OrchHospital
                                 /\ row.date = DateOf(now) }} :
                 /\ feature_vector' = a.vector
                 /\ ml_predictions' = p
                 /\ decisions' = d
                 /\ explanation' =
                      generate_explanation(a.vector, hd, backend_context, d)
                 /\ predictions' =
                      IF ~db_ok THEN predictions
                      ELSE IF found = {}
                      THEN predictions \cup
                             { [ id |-> Cardinality(predictions) + 1,
                                 hospital_id |-> OrchHospital,
                                 date |-> DateOf(now),
                                 values |-> RowValues(p, d, a.vector) ] }
                      ELSE { IF row \in found
                             THEN [row EXCEPT
                                     !.values = RowValues(p, d, a.vector)]
                             ELSE row : row \in predictions }
                 /\ last_call' = [op |-> "get_predictions_and_resources",
                                  raised |-> ~db_ok,
                                  error |-> IF db_ok THEN ""
                                            ELSE "OperationalError",
                                  missing |-> << >>,
                                  cache_calls |-> a.cache_calls]
                 /\ step' = IF db_ok THEN "returned" ELSE "raised"
  /\ UNCHANGED << global_model, regressor, hospital_data, backend_context >>
  /\ UNCHANGED << now, api_key_set, last_write, req, last_commit >>

\* The next call arrives with its own snapshot.
NextSnapshot ==
  /\ step \in {"returned", "raised"}
  /\ hospital_data' \in OrchSnapshotDicts
  /\ backend_context' = IdleRequest.backend_context
  /\ feature_vector' = NoVector
  /\ ml_predictions' = NoPrediction
  /\ decisions' = NoDecisions
  /\ explanation' = NoExplanation
  /\ step' = "input"
  /\ UNCHANGED << global_model, regressor, cacheVars, pipeVars >>

NextOrchestrate ==
  \/ HalfDay
  \/ \E sim \in PipeSimWeather : ContextFirst(sim)
  \/ \E sim \in PipeSimWeather, db_ok \in BOOLEAN : Orchestrate(sim, db_ok)
  \/ NextSnapshot

SpecOrchestrate == InitOrchestrate /\ [][NextOrchestrate]_vars

\* ------------------------------------------------------------------------
\* Properties of the evaluation (SpecPredict)
\* ------------------------------------------------------------------------
Predicted == step \in {"predicted", "decided", "explained"}

PredictionFields ==
  { "risk_score", "expected_er_increase_pct", "expected_icu_increase_pct",
    "is_fallback" }

\* C1: for every feature vector and every model outcome (no model, model call
\* raises, model call succeeds) PredictorService.predict does not raise and
\* returns risk_score, er and icu increase and a boolean is_fallback.
C1_PredictNeverRaises ==
  Predicted =>
    /\ ~ml_predictions.raised
    /\ PredictionFields \subseteq DOMAIN ml_predictions
    /\ ml_predictions.is_fallback \in BOOLEAN
    /\ ml_predictions.risk_score \in Int
    /\ ml_predictions.expected_er_increase_pct \in Int
    /\ ml_predictions.expected_icu_increase_pct \in Int

C1_Witness ==
  /\ step = "predicted"
  /\ global_model.kind = "raising"
  /\ WellFormed(hospital_data)
  /\ ~ml_predictions.raised
  /\ ml_predictions.is_fallback

\* The injected model is absent, or its prediction fails.
ModelAbsentOrFails ==
  \/ global_model.kind \in {"none", "raising"}
  \/ /\ global_model.kind = "wrapper"
     /\ global_model.artifact # "present" \/ regressor.raised

\* C2: whenever the injected model is absent or its prediction fails
\* (including a wrapper whose artifact could not be loaded at startup), the
\* prediction is the rule-based estimate: risk_score = min(0.6*occupancy
\* + 0.2 if oxygen or medicine low + 0.1 if weekend, 1.0), er increase 0.15
\* if risk_score > 0.5 else 0.10, icu increase 0.10 if risk_score > 0.5 else
\* 0.05, with is_fallback true.
C2_FallbackIsRuleBased ==
  (Predicted /\ ModelAbsentOrFails) =>
    LET o == hospital_data.icu_occupied
        t == hospital_data.icu_total
        low == hospital_data.oxygen_status = "low"
                 \/ hospital_data.medicine_status = "low"
        est == 600 * o + (IF low THEN 200 * t ELSE 0)
                 + (IF backend_context.is_weekend = 1 THEN 100 * t ELSE 0)
        high == Min(est, 1000 * t) > 500 * t
    IN  /\ ml_predictions.is_fallback
        /\ ml_predictions.risk_score * t = Min(est, 1000 * t)
        /\ ml_predictions.expected_er_increase_pct = (IF high THEN 150 ELSE 100)
        /\ ml_predictions.expected_icu_increase_pct = (IF high THEN 100 ELSE 50)

Rank(level) ==
  CASE level = "Normal" -> 0
    [] level = "Elevated" -> 1
    [] level = "High" -> 2
    [] level = "Critical" -> 3

\* C4: risk_level is a monotone step function of risk_score with breakpoints
\* 0.30, 0.50, 0.75; a score exactly on a breakpoint falls in the lower
\* bucket and no lower score gets a higher level.
C4_RiskLevelSteps ==
  step = "decided" =>
    LET score == ml_predictions.risk_score
        level == decisions.risk_level
    IN  /\ (level = "Critical") <=> (score > 750)
        /\ (level = "High") <=> (score > 500 /\ score <= 750)
        /\ (level = "Elevated") <=> (score > 300 /\ score <= 500)
        /\ (level = "Normal") <=> (score <= 300)
        /\ \A lower \in 0..score :
             Rank(classify_risk_level(lower)) <= Rank(level)

C4_Witness ==
  /\ step = "decided"
  /\ ml_predictions.risk_score = 750
  /\ decisions.risk_level = "High"

\* C5: additional_icu_beds and additional_staff are integers >= 0 for every
\* valid input, also when staff_on_duty exceeds the ideal staff count.
C5_CountsNonNegative ==
  step = "decided" =>
    /\ decisions.additional_icu_beds \in Nat
    /\ decisions.additional_staff \in Nat

C5_Witness ==
  /\ step = "decided"
  /\ hospital_data.staff_on_duty * 1000 * PATIENTS_PER_STAFF
       > hospital_data.daily_patients
           * (1000 + ml_predictions.expected_er_increase_pct)
          + 1000 * PATIENTS_PER_STAFF
  /\ decisions.additional_staff = 0
  /\ decisions.additional_icu_beds > 0

\* C6: supply_status is Low exactly when er_increase_pct > 0.20 and oxygen or
\* medicine is low, and Stable otherwise (0.20 itself gives Stable).
C6_SupplyStatus ==
  step = "decided" =>
    LET shortage == hospital_data.oxygen_status = "low"
                      \/ hospital_data.medicine_status = "low"
    IN  /\ decisions.supply_status \in {"Low", "Stable"}
        /\ (decisions.supply_status = "Low")
             <=> (ml_predictions.expected_er_increase_pct > 200 /\ shortage)

C6_Witness ==
  /\ step = "decided"
  /\ ml_predictions.expected_er_increase_pct = 200
  /\ hospital_data.oxygen_status = "low"
  /\ decisions.supply_status = "Stable"

\* ------------------------------------------------------------------------
\* Properties of the cache (SpecCache) and the weather service (SpecWeather)
\* ------------------------------------------------------------------------

\* C9: set(k, v, ttl=0) followed by get(k) after any elapsed time, none
\* included, returns absent; set(k, v, ttl=60) followed by an immediate
\* get(k) returns v.
C9_TtlZeroAbsentTtl60Present ==
  (last_call.op = "get" /\ last_call.key \in DOMAIN last_write) =>
    LET w == last_write[last_call.key]
    IN  /\ w.ttl = 0 => ~last_call.found
        /\ (w.ttl = 60 /\ last_call.at = w.at) =>
             (last_call.found /\ last_call.value = <<w.value>>)

\* A get has just returned the value of a ttl=60 set made at the same
\* instant, while the other key, last set with ttl=0, has been read as absent
\* some time after its set (only an expired read empties both tiers while the
\* set is still the key's last write).
C9_Witness ==
  /\ last_call.op = "get"
  /\ last_call.key \in DOMAIN last_write
  /\ last_write[last_call.key].ttl = 60
  /\ last_write[last_call.key].at = last_call.at
  /\ last_call.found
  /\ \E k \in DOMAIN last_write :
       /\ last_write[k].ttl = 0
       /\ last_write[k].at < now
       /\ k \notin DOMAIN memory_cache
       /\ k \notin DOMAIN cached_data

\* C10: when the weather fetch fails or times out, or the API key is
\* missing, get_today_weather does not raise and returns exactly the fixed
\* fallback (temp_max 30.0, rain_mm 0.0, weather_severity 0.3), the same for
\* a timeout as for any other failure.
C10_FetchFailureGivesFallback ==
  (last_call.op = "get_today_weather" /\ last_call.failed) =>
    /\ ~last_call.raised
    /\ last_call.result = <<get_fallback_weather>>

C10_Witness ==
  /\ last_call.op = "get_today_weather"
  /\ last_call.fetched
  /\ last_call.outcome = "timeout"
  /\ ~last_call.raised
  /\ last_call.result = <<get_fallback_weather>>

\* ------------------------------------------------------------------------
\* Properties of the prediction requests (SpecPipe, FairPipe)
\* ------------------------------------------------------------------------
PersistenceErrors == {"OperationalError", "IntegrityError"}

Answered(r) ==
  /\ req[r].pc = "done"
  /\ req[r].decisions.risk_level \in {"Normal", "Elevated", "High", "Critical"}
  /\ req[r].decisions.additional_icu_beds >= 0
  /\ req[r].decisions.additional_staff >= 0
  /\ req[r].decisions.supply_status \in {"Stable", "Low"}

Rejected(r) == req[r].pc = "error" /\ req[r].error \in PersistenceErrors

\* C3: whatever the model handle (none, one that raises, a loaded wrapper
\* whose regressor answers or raises) and whatever the weather drawn, a
\* request that has started eventually ends, and it ends either with a
\* response that carries a risk level and the resource decisions or with an
\* error of the persistence step; no other error ever reaches the caller.
C3_RequestCompletes ==
  /\ [](\A r \in Requests : req[r].pc = "error" => Rejected(r))
  /\ \A r \in Requests :
       (req[r].pc # "idle") ~> (Answered(r) \/ Rejected(r))

C3_Witness ==
  \E r \in Requests :
    /\ Answered(r)
    /\ global_model.kind = "raising"
    /\ req[r].ml_predictions.is_fallback

\* The key of the row a request reads and writes, once it has looked it up.
RowKey(r) == << req[r].hospital_id, req[r].today >>

PastLookup(r) ==
  \/ req[r].pc \in {"commit", "respond", "done"}
  \/ req[r].pc = "error" /\ req[r].error \in PersistenceErrors

RowsOf(key) ==
  { row \in predictions : row.hospital_id = key[1] /\ row.date = key[2] }

\* The row of the key holds exactly what request r computed.
HoldsValuesOf(key, r) ==
  \A row \in RowsOf(key) :
    row.values = RowValues(req[r].ml_predictions, req[r].decisions,
                           req[r].feature_vector)

\* Request r commits over a row it found when it looked the key up.
Overwrites(r) ==
  /\ req[r].pc = "commit"
  /\ req[r].pending = "update"
  /\ req'[r].pc = "respond"

\* C7: the table never holds two rows for one (hospital, date); for every
\* pair that has been written there is a row, and it holds the values of the
\* request that committed last for the pair; a request that found a row for
\* its pair commits without changing the number of rows.
C7_OneRecordPerTenantDate ==
  /\ [](\A key \in DOMAIN last_commit :
          /\ Cardinality(RowsOf(key)) = 1
          /\ HoldsValuesOf(key, last_commit[key]))
  /\ [](\A row \in predictions :
          << row.hospital_id, row.date >> \in DOMAIN last_commit)
  /\ [][\A r \in Requests :
          Overwrites(r) => Cardinality(predictions') = Cardinality(predictions)]_vars

C7_Witness ==
  \E r1, r2 \in Requests :
    /\ r1 # r2
    /\ req[r1].pc = "done" /\ req[r2].pc = "done"
    /\ RowKey(r1) = RowKey(r2)
    /\ req[r1].pending = "insert" /\ req[r2].pending = "update"
    /\ req[r1].feature_vector # req[r2].feature_vector
    /\ Cardinality(predictions) = 1
    /\ HoldsValuesOf(RowKey(r2), r2)

\* C8: of two requests for the same hospital and date that are both past
\* the lookup of the row, neither is turned down by the table, and the one
\* row holds the values of whichever of them committed last.
C8_BothCompleteLastWriteWins ==
  \A r1, r2 \in Requests :
    (r1 # r2 /\ PastLookup(r1) /\ PastLookup(r2) /\ RowKey(r1) = RowKey(r2))
      => /\ req[r1].error # "IntegrityError"
         /\ req[r2].error # "IntegrityError"
         /\ RowKey(r1) \in DOMAIN last_commit
              => /\ Cardinality(RowsOf(RowKey(r1))) = 1
                 /\ HoldsValuesOf(RowKey(r1), last_commit[RowKey(r1)])

\* ------------------------------------------------------------------------
\* Properties of the explained evaluation (SpecExplain, SpecPredict)
\* ------------------------------------------------------------------------
Explained == step = "explained"

Range(seq) == { seq[i] : i \in 1..Len(seq) }

\* Scenario A: occupancy 36 of 40, 43 degrees, 60 mm of rain, oxygen low,
\* medicine normal, a weekend.
ScenarioA ==
  /\ hospital_data.icu_occupied = 36 /\ hospital_data.icu_total = 40
  /\ hospital_data.oxygen_status = "low"
  /\ hospital_data.medicine_status = "normal"
  /\ backend_context.temp_max = 43 /\ backend_context.rain_mm = 60
  /\ backend_context.is_weekend = 1

\* C11, as stated: on Scenario A with the rule-based fallback the reasons
\* include the ICU-critical, extreme-heat, extreme-rainfall, weekend and
\* oxygen-low reasons, and the risk level is High or Critical.
C11_ScenarioA_AsStated ==
  (Explained /\ ScenarioA) =>
    /\ {"icu_critical", "extreme_heat", "extreme_rainfall", "weekend",
        "oxygen_low"} \subseteq Range(explanation.reasons)
    /\ decisions.risk_level \in {"High", "Critical"}

\* C11, amended: on Scenario A with the rule-based fallback the occupancy of
\* exactly 0.90 is not above the critical threshold, so the reasons include
\* the ICU-high reason and not the ICU-critical one, together with the
\* extreme-heat, extreme-rainfall, weekend and oxygen-low reasons; the risk
\* score is 0.84 and the risk level is Critical.
C11_ScenarioA ==
  (Explained /\ ScenarioA) =>
    /\ {"icu_high", "extreme_heat", "extreme_rainfall", "weekend",
        "oxygen_low"} \subseteq Range(explanation.reasons)
    /\ "icu_critical" \notin Range(explanation.reasons)
    /\ ml_predictions.is_fallback
    /\ ml_predictions.risk_score = 840
    /\ decisions.risk_level = "Critical"

C11_Witness ==
  /\ Explained /\ ScenarioA
  /\ "icu_high" \in Range(explanation.reasons)
  /\ decisions.risk_level = "Critical"

\* Scenario B: occupancy 12 of 40, 25 degrees, no rain, supplies normal, a
\* weekday without festival, seasonal weight 0.3, and at least as many staff
\* on duty as the ideal count.
ScenarioB ==
  /\ hospital_data.icu_occupied = 12 /\ hospital_data.icu_total = 40
  /\ hospital_data.oxygen_status = "normal"
  /\ hospital_data.medicine_status = "normal"
  /\ backend_context.temp_max = 25 /\ backend_context.rain_mm = 0
  /\ backend_context.is_weekend = 0 /\ backend_context.is_festival = 0
  /\ backend_context.seasonal_illness_weight = 300
  /\ hospital_data.staff_on_duty >=
       ideal_staff_of(hospital_data.daily_patients,
                      ml_predictions.expected_er_increase_pct)

\* C12, as stated: on Scenario B with the rule-based fallback the decisions
\* are Normal, 0 additional ICU beds, 0 additional staff and Stable.
C12_ScenarioB_AsStated ==
  (Explained /\ ScenarioB) =>
    /\ decisions.risk_level = "Normal"
    /\ decisions.additional_icu_beds = 0
    /\ decisions.additional_staff = 0
    /\ decisions.supply_status = "Stable"

\* C12, amended: on Scenario B the rule-based fallback gives a risk score of
\* 0.18 and an ICU increase of 0.05, so the decisions are Normal,
\* ceil(40 * 0.05) = 2 additional ICU beds, 0 additional staff and Stable.
C12_ScenarioB ==
  (Explained /\ ScenarioB) =>
    /\ ml_predictions.is_fallback
    /\ ml_predictions.risk_score = 180
    /\ ml_predictions.expected_icu_increase_pct = 50
    /\ decisions.risk_level = "Normal"
    /\ decisions.additional_icu_beds = 2
    /\ decisions.additional_staff = 0
    /\ decisions.supply_status = "Stable"

C12_Witness ==
  /\ Explained /\ ScenarioB
  /\ hospital_data.daily_patients = 120 /\ hospital_data.staff_on_duty = 14
  /\ decisions.additional_icu_beds = 2
  /\ decisions.additional_staff = 0

\* ------------------------------------------------------------------------
\* Properties of assemble_features (SpecAssemble)
\* ------------------------------------------------------------------------
Assembled == step = "assembled"

SixRawFields ==
  {"icu_occupied", "icu_total", "daily_patients", "staff_on_duty",
   "oxygen_status", "medicine_status"}

AbsentRawFields == SixRawFields \ Range(DictKeys(hospital_data))

\* C13: the validation of the snapshot fails exactly when one of the six raw
\* fields is absent, and the error names exactly the absent fields; a
\* snapshot with all six passes the validation.
C13_ValidationIffFieldMissing ==
  Assembled =>
    /\ (feature_vector.raised /\ feature_vector.error = "hospital_fields")
         <=> AbsentRawFields # {}
    /\ AbsentRawFields # {} => Range(feature_vector.missing) = AbsentRawFields
    /\ feature_vector.error # "KeyError"

C13_Witness ==
  /\ Assembled
  /\ AbsentRawFields = {"medicine_status"}
  /\ feature_vector.raised
  /\ feature_vector.missing = << "medicine_status" >>

ContractOrder ==
  << "icu_occupancy_pct", "daily_patients", "staff_on_duty", "oxygen_low",
     "medicine_low", "temp_max", "rain_mm", "weather_severity", "is_weekend",
     "is_festival", "seasonal_illness_weight" >>

\* The items the three enrichments returned, for the keys they hold.
EnrichedItems ==
  backend_context.weather \o backend_context.calendar
    \o backend_context.seasonal

\* C14: assemble_features either raises a validation error that names
\* missing keys, or returns exactly the 11 contract fields in the contract
\* order, each with the value of the enrichment that supplied it, whatever
\* the order of the items it merged; it fails for a missing feature exactly
\* when the enrichments lack one of their six keys.
C14_ElevenInOrderOrError ==
  Assembled =>
    /\ feature_vector.raised =>
         /\ feature_vector.error \in {"hospital_fields", "features"}
         /\ feature_vector.missing # << >>
         /\ feature_vector.vector = << >>
    /\ ~feature_vector.raised =>
         /\ DictKeys(feature_vector.vector) = ContractOrder
         /\ ContractOrder = FEATURE_CONTRACT
         /\ \A i \in 1..Len(EnrichedItems) :
              EnrichedItems[i].k \in Range(ContractOrder) =>
                DictGet(feature_vector.vector, EnrichedItems[i].k)
                  = EnrichedItems[i].v
    /\ (feature_vector.raised /\ feature_vector.error = "features")
         <=> /\ AbsentRawFields = {}
             /\ ~(Range(SubSeq(ContractOrder, 6, 11))
                    \subseteq Range(DictKeys(EnrichedItems)))

C14_Witness ==
  /\ Assembled
  /\ ~feature_vector.raised
  /\ DictKeys(backend_context.weather)
       = << "weather_severity", "temp_max", "rain_mm" >>
  /\ DictKeys(backend_context.calendar) = << "is_festival", "is_weekend" >>
  /\ DictKeys(feature_vector.vector) = ContractOrder

\* ------------------------------------------------------------------------
\* Properties of the persistence step (SpecPipe)
\* ------------------------------------------------------------------------
CommitFailed(r) == req[r].pc = "error" /\ req[r].error \in PersistenceErrors

\* C15: a request whose commit fails ends as an error answered with status
\* 500 after exactly one call of commit; it stays an error, no success
\* response is ever sent for it, the failed commit leaves the table as it
\* was, and no request ever calls commit twice.
C15_CommitFailureIsInternalError ==
  /\ [](\A r \in Requests :
          /\ req[r].attempts <= 1
          /\ CommitFailed(r) => req[r].http_status = 500 /\ req[r].attempts = 1
          /\ req[r].http_status = 200 => req[r].pc = "done" /\ req[r].error = "")
  /\ [][\A r \in Requests :
          /\ CommitFailed(r) => req'[r] = req[r]
          /\ (req[r].pc = "commit" /\ req'[r].pc = "error")
               => predictions' = predictions /\ last_commit' = last_commit]_vars

C15_Witness ==
  \E r \in Requests :
    /\ CommitFailed(r)
    /\ req[r].error = "OperationalError"
    /\ req[r].attempts = 1
    /\ req[r].http_status = 500

\* C16 (first half, as stated): requests of different tenants are
\* independent, so what a request of tenant B answers and stores is built
\* only from what B's own requests fetched: the weather reading in its
\* backend context and in its feature vector was drawn by a request of the
\* same hospital, never by a request of another one.
C16_WeatherFromOwnTenant ==
  \A r \in Requests :
    /\ req[r].context_by \in {0, req[r].hospital_id}
    /\ req[r].vector_by \in {0, req[r].hospital_id}

\* The category of each reason, numbered in the fixed order: ICU occupancy,
\* temperature, rainfall, staffing, weekend, festival, oxygen, medicine,
\* seasonal illness.
ReasonCategory ==
  [ icu_critical |-> 1, icu_high |-> 1, extreme_heat |-> 2, heatwave |-> 2,
    extreme_rainfall |-> 3, heavy_rain |-> 3, staff_below_threshold |-> 4,
    weekend |-> 5, festival |-> 6, oxygen_low |-> 7, medicine_low |-> 8,
    seasonal_illness |-> 9 ]

OccupancyAbove(pct) ==
  feature_vector.icu_occupancy_pct.num * 100
    > pct * feature_vector.icu_occupancy_pct.den

\* For each reason, the threshold condition of its category on the inputs.
ReasonHolds ==
  [ icu_critical |-> OccupancyAbove(90),
    icu_high |-> OccupancyAbove(80) /\ ~OccupancyAbove(90),
    extreme_heat |-> backend_context.temp_max > 42,
    heatwave |-> backend_context.temp_max > 38
                   /\ ~(backend_context.temp_max > 42),
    extreme_rainfall |-> backend_context.rain_mm > 50,
    heavy_rain |-> backend_context.rain_mm > 30
                     /\ ~(backend_context.rain_mm > 50),
    staff_below_threshold |-> hospital_data.staff_on_duty < 8,
    weekend |-> backend_context.is_weekend = 1,
    festival |-> backend_context.is_festival = 1,
    oxygen_low |-> hospital_data.oxygen_status = "low",
    medicine_low |-> hospital_data.medicine_status = "low",
    seasonal_illness |-> backend_context.seasonal_illness_weight > 700 ]

\* C17: the reasons generated are a subsequence of the fixed category
\* order (the categories of consecutive reasons strictly increase, so no
\* category appears twice), every entry is one of the twelve known
\* reasons, and a reason is in the list exactly when its threshold holds
\* on the inputs.
C17_ReasonsOrderedByThreshold ==
  Explained =>
    LET reasons == explanation.reasons
    IN  /\ \A i \in 1..Len(reasons) : reasons[i] \in DOMAIN ReasonCategory
        /\ \A i \in 1..(Len(reasons) - 1) :
             ReasonCategory[reasons[i]] < ReasonCategory[reasons[i + 1]]
        /\ \A tag \in DOMAIN ReasonCategory :
             tag \in Range(reasons) <=> ReasonHolds[tag]

\* All nine categories fire at once, with the critical and extreme reasons.
C17_Witness ==
  /\ Explained
  /\ Len(explanation.reasons) = 9
  /\ explanation.reasons[1] = "icu_critical"
  /\ explanation.reasons[2] = "extreme_heat"
  /\ explanation.reasons[9] = "seasonal_illness"

\* Boundary inputs: occupancy exactly 0.80, 38 degrees, 30 mm, 8 staff and
\* weight 0.7 give no reason at all.
C17_WitnessBoundary ==
  /\ Explained
  /\ hospital_data.icu_occupied = 32
  /\ backend_context.temp_max = 38
  /\ backend_context.rain_mm = 30
  /\ hospital_data.staff_on_duty = 8
  /\ backend_context.seasonal_illness_weight = 700
  /\ backend_context.is_weekend = 0
  /\ backend_context.is_festival = 0
  /\ hospital_data.oxygen_status # "low"
  /\ hospital_data.medicine_status # "low"
  /\ explanation.reasons = << >>

\* The conditional lines, numbered in the order in which they are appended.
ConditionalRank == [ prepare_beds |-> 1, summon_staff |-> 2, restock |-> 3 ]

LinesOf(recs) == { recs[i].line : i \in 1..Len(recs) }

\* C18: the recommendations are the four protocol entries of the risk
\* level's row, in row order, followed by the prepare-beds line iff
\* additional_icu_beds > 0, the summon-staff line iff additional_staff > 0
\* and the restock line iff supply_status is Low, in that order; the list
\* has 4 to 7 entries and the two counted lines carry the decision's count.
C18_RecommendationsByLevelAndDecisions ==
  step \in {"explained", "recommended"} =>
    LET recs == explanation.recommendations
        d == decisions
    IN  /\ d.risk_level \in RiskLevels
        /\ Len(recs) \in 4..7
        /\ \A i \in 1..4 :
             recs[i] = [line |-> "protocol", level |-> d.risk_level, n |-> i]
        /\ \A i \in 5..Len(recs) : recs[i].line \in DOMAIN ConditionalRank
        /\ \A i \in 5..(Len(recs) - 1) :
             ConditionalRank[recs[i].line] < ConditionalRank[recs[i + 1].line]
        /\ "prepare_beds" \in LinesOf(recs) <=> d.additional_icu_beds > 0
        /\ "summon_staff" \in LinesOf(recs) <=> d.additional_staff > 0
        /\ "restock" \in LinesOf(recs) <=> d.supply_status = "Low"
        /\ \A i \in 5..Len(recs) :
             /\ recs[i].line = "prepare_beds"
                  => recs[i].n = d.additional_icu_beds
             /\ recs[i].line = "summon_staff"
                  => recs[i].n = d.additional_staff

\* A Critical evaluation with all three conditional lines: seven entries.
C18_Witness ==
  /\ step = "recommended"
  /\ decisions.risk_level = "Critical"
  /\ Len(explanation.recommendations) = 7
  /\ explanation.recommendations[5].line = "prepare_beds"
  /\ explanation.recommendations[5].n > 0
  /\ explanation.recommendations[6].line = "summon_staff"
  /\ explanation.recommendations[7].line = "restock"

\* Each risk level with no conditional line: exactly the four entries.
C18_WitnessFour(level) ==
  /\ step = "recommended"
  /\ decisions.risk_level = level
  /\ Len(explanation.recommendations) = 4

C18_WitnessFourCritical == C18_WitnessFour("Critical")
C18_WitnessFourHigh == C18_WitnessFour("High")
C18_WitnessFourElevated == C18_WitnessFour("Elevated")
C18_WitnessFourNormal == C18_WitnessFour("Normal")

\* The in-process tier holds an unexpired entry of the kind for today.
LiveEntry(kind) ==
  \E k \in DOMAIN memory_cache :
    /\ k.kind = kind
    /\ k.date = DateOf(now)
    /\ memory_cache[k].expires_at > now

\* C19 (as stated): weather, calendar and seasonal context are each cached
\* under their own key: once an enrichment of the day has run and its
\* entries have not expired (today's weather entry is live), the cache
\* holds a live entry for each of the three derivations.
C19_EntryForEachDerivation ==
  LiveEntry("weather") =>
    \A kind \in {"weather", "calendar", "seasonal"} : LiveEntry(kind)

\* An entry of a tier that a get at the current time may answer from.
LiveIn(tier, key) == key \in DOMAIN tier /\ tier[key].expires_at > now

ExpiredIn(tier, key) == key \in DOMAIN tier /\ ~(tier[key].expires_at > now)

OthersUntouched(key) ==
  \A k \in CacheKeys \ {key} :
    /\ (k \in DOMAIN memory_cache) = (k \in DOMAIN memory_cache')
    /\ (k \in DOMAIN cached_data) = (k \in DOMAIN cached_data')
    /\ k \in DOMAIN memory_cache => memory_cache'[k] = memory_cache[k]
    /\ k \in DOMAIN cached_data => cached_data'[k] = cached_data[k]

\* What a step get(key) must do, by the tier in which the key is found.
GetContract(key) ==
  /\ last_call'.found = (LiveIn(memory_cache, key) \/ LiveIn(cached_data, key))
  \* the in-process tier answers first and the table is left alone
  /\ LiveIn(memory_cache, key) =>
       /\ last_call'.tier = "memory"
       /\ last_call'.value = << memory_cache[key].value >>
       /\ memory_cache' = memory_cache
       /\ cached_data' = cached_data
  \* an in-process miss or expiry sends the get to the table; a live row is
  \* returned and copied, with its expiry, into the in-process tier
  /\ (~LiveIn(memory_cache, key) /\ LiveIn(cached_data, key)) =>
       /\ last_call'.tier = "database"
       /\ last_call'.value = << cached_data[key].value >>
       /\ key \in DOMAIN memory_cache'
       /\ memory_cache'[key].value = cached_data[key].value
       /\ memory_cache'[key].expires_at = cached_data[key].expires_at
       /\ cached_data' = cached_data
  \* an expired entry is deleted from the tier in which it was found
  /\ (ExpiredIn(memory_cache, key) /\ ~LiveIn(cached_data, key)) =>
       key \notin DOMAIN memory_cache'
  /\ (~LiveIn(memory_cache, key) /\ ExpiredIn(cached_data, key)) =>
       key \notin DOMAIN cached_data'
  \* a miss creates nothing
  /\ (~LiveIn(memory_cache, key) /\ ~LiveIn(cached_data, key)) =>
       /\ last_call'.value = << >>
       /\ key \notin DOMAIN memory_cache'
       /\ key \notin DOMAIN cached_data'
  /\ OthersUntouched(key)

\* C20: every get(k) consults the in-process tier first and the table only
\* on an in-process miss or expiry, answers only from an entry whose
\* expires_at is strictly after the current time, copies a table hit into
\* the in-process tier and deletes an expired entry from the tier where it
\* found it; so after any sequence of set, get, delete, clear_expired,
\* restart and passing time no get returns the value of an expired entry.
C20_GetTiersAndExpiry ==
  [][\A key \in CacheKeys : Get(key) => GetContract(key)]_vars

\* After a restart emptied the in-process tier, a get has been answered
\* from the table (the "Cache HIT (database)" branch) and has copied the
\* live row back into the in-process tier, while the other key's entry
\* expired and a get removed it from both tiers.
C20_Witness ==
  /\ last_call.op = "get"
  /\ last_call.tier = "database"
  /\ last_call.at = now
  /\ last_call.key \in DOMAIN memory_cache
  /\ memory_cache[last_call.key] = cached_data[last_call.key]
  /\ \E j \in CacheKeys \ {last_call.key} :
       /\ j \in DOMAIN last_write
       /\ j \notin DOMAIN memory_cache
       /\ j \notin DOMAIN cached_data

\* C21: set(k, v, ttl) leaves [v, now + ttl] under k in both tiers and
\* delete(k) leaves k in neither; hence, whatever sets, gets, deletes and
\* clear_expired calls were made, every unexpired in-process entry has a
\* row in the table with the same key, value and expiry, and a get(k) that
\* follows delete(k) returns absent.
C21_TiersAgree ==
  /\ [][\A key \in CacheKeys, value \in CacheValues, ttl \in CacheTtls :
          Set(key, value, ttl) =>
            /\ key \in DOMAIN memory_cache' /\ key \in DOMAIN cached_data'
            /\ memory_cache'[key] = [value |-> value, expires_at |-> now + ttl]
            /\ cached_data'[key] = [value |-> value, expires_at |-> now + ttl]]_vars
  /\ [][\A key \in CacheKeys :
          Delete(key) =>
            key \notin DOMAIN memory_cache' /\ key \notin DOMAIN cached_data']_vars
  /\ [](\A k \in DOMAIN memory_cache :
          memory_cache[k].expires_at > now =>
            k \in DOMAIN cached_data /\ cached_data[k] = memory_cache[k])
  /\ []((last_call.op = "get" /\ last_call.after_delete) => ~last_call.found)

\* A key that was set and then deleted has just been read as absent, while
\* the other key, set with ttl 60, is unexpired and equal in both tiers.
C21_Witness ==
  /\ last_call.op = "get"
  /\ last_call.after_delete
  /\ ~last_call.found
  /\ \E j \in CacheKeys \ {last_call.key} :
       /\ j \in DOMAIN memory_cache
       /\ memory_cache[j].expires_at > now
       /\ j \in DOMAIN cached_data
       /\ cached_data[j] = memory_cache[j]
       /\ now > 0

\* C22: a clear_expired step removes from the table exactly the rows whose
\* expires_at is not after the current time, keeps every other row as it
\* was, does not touch the in-process tier, and returns the number of rows
\* it removed.
C22_ClearExpiredFrame ==
  [][ClearExpired =>
       /\ DOMAIN cached_data' =
            { k \in DOMAIN cached_data : cached_data[k].expires_at > now }
       /\ \A k \in DOMAIN cached_data' : cached_data'[k] = cached_data[k]
       /\ memory_cache' = memory_cache
       /\ last_call'.expired_count =
            Cardinality(DOMAIN cached_data) - Cardinality(DOMAIN cached_data')
     ]_vars

\* A sweep has removed one row and kept another that is unexpired, and the
\* in-process tier still holds the expired entry of the row removed.
C22_Witness ==
  /\ last_call.op = "clear_expired"
  /\ last_call.expired_count = 1
  /\ \E k \in DOMAIN cached_data : cached_data[k].expires_at > now
  /\ \E k \in DOMAIN memory_cache :
       /\ memory_cache[k].expires_at <= now
       /\ k \notin DOMAIN cached_data

\* The stages of a request in the order of the sequence: enrich context,
\* assemble features, predict + decide + explain, look the row up, commit
\* the upsert, build the response, done.
StageOf ==
  [ idle |-> 0, enrich |-> 1, assemble |-> 2, infer |-> 3, lookup |-> 4,
    commit |-> 5, respond |-> 6, done |-> 7 ]

\* The request has computed its prediction, decisions and explanation, each
\* from the one before.
Inferred(r) ==
  /\ ~req[r].ml_predictions.raised
  /\ req[r].ml_predictions =
       PredictorService_predict(global_model, req[r].feature_vector, regressor)
  /\ req[r].decisions =
       derive_all_decisions(req[r].ml_predictions, req[r].hospital_data)
  /\ req[r].explanation =
       generate_explanation(req[r].feature_vector, req[r].hospital_data,
                            req[r].backend_context, req[r].decisions)

\* C23: a request moves through its stages one at a time in the fixed
\* order (or leaves them with an error); it reaches the upsert only with
\* decisions and explanation computed from its own prediction, the row its
\* commit writes holds exactly those values, and a response is returned only
\* by a request whose commit has been made and has succeeded.
C23_StagesInOrder ==
  /\ [][\A r \in Requests :
          req'[r].pc # req[r].pc =>
            \/ req'[r].pc = "error"
            \/ /\ req[r].pc # "error"
               /\ StageOf[req'[r].pc] = StageOf[req[r].pc] + 1]_vars
  /\ [](\A r \in Requests :
          req[r].pc \in {"lookup", "commit", "respond", "done"} => Inferred(r))
  /\ [][\A r \in Requests :
          (req[r].pc = "commit" /\ req'[r].pc = "respond") =>
            /\ last_commit'[RowKey(r)] = r
            /\ \E row \in predictions' :
                 /\ row.hospital_id = req[r].hospital_id
                 /\ row.date = req[r].today
                 /\ row.values = RowValues(req[r].ml_predictions,
                                           req[r].decisions,
                                           req[r].feature_vector)]_vars
  /\ [][\A r \in Requests :
          (req'[r].http_status = 200 /\ req[r].http_status # 200) =>
            /\ req[r].pc = "respond"
            /\ req[r].attempts = 1
            /\ RowsOf(RowKey(r)) # {}]_vars

\* A request has gone through every stage: it holds a response with the
\* decisions and explanation of its own prediction, and the row it committed
\* is in the table.
C23_Witness ==
  \E r \in Requests :
    /\ req[r].pc = "done"
    /\ req[r].http_status = 200
    /\ req[r].attempts = 1
    /\ Inferred(r)
    /\ RowKey(r) \in DOMAIN last_commit
    /\ last_commit[RowKey(r)] = r
    /\ RowsOf(RowKey(r)) # {}
    /\ HoldsValuesOf(RowKey(r), r)

\* clamp to [0, 1] of max(0, temp - 35) * 0.05 + max(0, rain - 5) * 0.02, in
\* thousandths.
ClampedSeverity(temp, rain) ==
  Min(1000, Max(0, Max(0, temp - 35) * 50 + Max(0, rain - 5) * 20))

\* C24: the severity computed for a reading equals the clamped sum of the
\* two penalties; it is 0 when temp_max <= 35 and rain_mm <= 5, lies in
\* [0, 1], and a reading one degree hotter or one millimetre wetter never
\* has a lower severity.
C24_SeverityClampedMonotone ==
  last_call.op = "_process_weather_data" =>
    LET t == last_call.data.temp_max
        r == last_call.data.rain_mm
        sev == last_call.result.weather_severity
    IN  /\ sev = ClampedSeverity(t, r)
        /\ (t <= 35 /\ r <= 5) => sev = 0
        /\ sev \in 0..1000
        /\ process_weather_data([temp_max |-> t + 1, rain_mm |-> r])
             .weather_severity >= sev
        /\ process_weather_data([temp_max |-> t, rain_mm |-> r + 1])
             .weather_severity >= sev
        /\ last_call.result.temp_max = t
        /\ last_call.result.rain_mm = r

\* A reading whose two penalties sum to more than 1 has severity exactly 1.
C24_Witness ==
  /\ last_call.op = "_process_weather_data"
  /\ last_call.data.temp_max = 50
  /\ last_call.data.rain_mm = 30
  /\ last_call.result.weather_severity = 1000

\* A reading between the thresholds and the cap: 40 degrees and 10 mm give
\* 0.25 + 0.10.
C24_WitnessBelowCap ==
  /\ last_call.op = "_process_weather_data"
  /\ last_call.data.temp_max = 40
  /\ last_call.data.rain_mm = 10
  /\ last_call.result.weather_severity = 350

\* C25 (as stated): whatever the snapshot and the predicted ER increase,
\* additional_staff is max(0, ceil(daily_patients * (1 + er_increase_pct)
\* / 10) - staff_on_duty), the ceiling being that of the exact quotient.
C25_StaffIsExactCeiling ==
  step \in {"decided", "explained"} =>
    decisions.additional_staff =
      Max(0, CeilDiv(hospital_data.daily_patients
                       * (1000 + ml_predictions.expected_er_increase_pct),
                     1000 * 10)
             - hospital_data.staff_on_duty)

ContextFields ==
  { "temp_max", "rain_mm", "weather_severity", "is_weekend", "is_festival",
    "seasonal_illness_weight" }

\* C26 (as stated): once a request has assembled its feature vector, the
\* weather, calendar and seasonal values of its backend context (read by the
\* explanation engine) equal those of the vector (fed to the predictor and
\* stored as the record's input_features), whatever happened to the cache
\* between the two enrichments.
C26_ContextEqualsVector ==
  \A r \in Requests :
    req[r].pc \in {"infer", "lookup", "commit", "respond", "done"} =>
      \A f \in ContextFields :
        req[r].backend_context[f] = req[r].feature_vector[f]

\* The trained regressor answers: the wrapper is injected, its artifact
\* loads and the regressor's predict returns.
TrainedAnswers ==
  /\ global_model.kind = "wrapper"
  /\ global_model.artifact = "present"
  /\ ~regressor.raised

NumbersOf(p) ==
  << p.risk_score, p.expected_er_increase_pct, p.expected_icu_increase_pct >>

\* C27: the is_fallback flag of a request's prediction is false exactly
\* when its three numbers are the trained regressor's output; when the
\* rule-based fallback or the wrapper's constant fallback supplied them it
\* is true; and the flag stored in a row is the flag of the prediction whose
\* numbers the row stores.
C27_FallbackFlagTruthful ==
  /\ \A r \in Requests :
       req[r].pc \in {"lookup", "commit", "respond", "done"} =>
         LET p == req[r].ml_predictions
         IN  /\ p.is_fallback = ~TrainedAnswers
             /\ TrainedAnswers =>
                  NumbersOf(p) = << regressor.out[1], regressor.out[2],
                                    regressor.out[3] >>
             /\ ~TrainedAnswers =>
                  \/ p = rule_based_fallback(req[r].feature_vector)
                  \/ /\ global_model.kind = "wrapper"
                     /\ NumbersOf(p) = NumbersOf(FALLBACK_PREDICTIONS)
  /\ \A key \in DOMAIN last_commit :
       \A row \in RowsOf(key) :
         LET p == req[last_commit[key]].ml_predictions
         IN  /\ << row.values.risk_score, row.values.er_surge_pct,
                   row.values.icu_surge_pct >> = NumbersOf(p)
             /\ row.values.is_fallback = (IF p.is_fallback THEN 1 ELSE 0)

\* A row stores the wrapper's constant fallback (its regressor raised) with
\* the flag set.
C27_Witness ==
  /\ global_model.kind = "wrapper"
  /\ regressor.raised
  /\ \E row \in predictions :
       /\ row.values.is_fallback = 1
       /\ row.values.risk_score = FALLBACK_PREDICTIONS.risk_score
       /\ row.values.er_surge_pct =
            FALLBACK_PREDICTIONS.expected_er_increase_pct

\* A row stores the trained regressor's numbers with the flag clear.
C27_WitnessTrained ==
  /\ TrainedAnswers
  /\ \E row \in predictions :
       /\ row.values.is_fallback = 0
       /\ row.values.risk_score = regressor.out[1]

\* A row stores the rule-based estimate with the flag set.
C27_WitnessRuleBased ==
  /\ global_model.kind \in {"none", "raising"}
  /\ \E row \in predictions : row.values.is_fallback = 1

\* PredictorService.predict takes the rule-based path: no model was
\* injected, or the injected model's predict raised.
RuleBasedPath == global_model.kind \in {"none", "raising"}

\* C28: when the prediction comes from the rule-based fallback the ER
\* increase is 0.10 or 0.15, never above 0.20, and the supply status derived
\* from it is Stable for every snapshot, those with oxygen or medicine low
\* included.
C28_FallbackSupplyStable ==
  (step \in {"decided", "explained"} /\ RuleBasedPath) =>
    /\ ml_predictions.is_fallback
    /\ ml_predictions.expected_er_increase_pct \in {100, 150}
    /\ ml_predictions.expected_er_increase_pct <= 200
    /\ decisions.supply_status = "Stable"

\* The fallback's larger ER increase with both supplies low: still Stable.
C28_Witness ==
  /\ step = "decided"
  /\ RuleBasedPath
  /\ hospital_data.oxygen_status = "low"
  /\ hospital_data.medicine_status = "low"
  /\ ml_predictions.expected_er_increase_pct = 150
  /\ decisions.supply_status = "Stable"

\* C29: a get_today_weather call whose fetch fails or times out leaves both
\* cache tiers exactly as they were; no entry of either tier ever holds the
\* fixed fallback weather; the call for the same city and date that follows
\* a failed call (one that had consulted the cache) attempts the fetch
\* again; and no call returns the fallback without having attempted a fetch.
C29_FallbackNeverCached ==
  /\ [][\A city \in Cities, use_db \in BOOLEAN, outcome \in FetchOutcomes,
           reading \in ApiReadings :
          ( /\ last_call'.op = "get_today_weather"
            /\ last_call'.failed
            /\ last_call'.key = WeatherKey(city, now)
            /\ last_call'.use_db = use_db
            /\ last_call'.outcome = outcome
            /\ TodayWeather(city, use_db, outcome, reading) ) =>
            /\ memory_cache' = memory_cache
            /\ cached_data' = cached_data]_vars
  /\ [](\A k \in DOMAIN memory_cache :
          memory_cache[k].value # get_fallback_weather)
  /\ [](\A k \in DOMAIN cached_data :
          cached_data[k].value # get_fallback_weather)
  /\ [][\A city \in Cities, use_db \in BOOLEAN, outcome \in FetchOutcomes,
           reading \in ApiReadings :
          ( /\ last_call.op = "get_today_weather"
            /\ last_call.failed
            /\ last_call.use_db
            /\ last_call.key = WeatherKey(city, now)
            /\ last_call'.op = "get_today_weather"
            /\ last_call'.use_db = use_db
            /\ last_call'.outcome = outcome
            /\ TodayWeather(city, use_db, outcome, reading) ) =>
            last_call'.fetched]_vars
  /\ []((last_call.op = "get_today_weather"
          /\ last_call.result = << get_fallback_weather >>) =>
         (last_call.fetched /\ last_call.failed))

\* A fetch for a city with the cache in use has timed out and the fallback
\* was returned, the city has no entry in either tier, and the other city's
\* entry, cached earlier, is still there.
C29_Witness ==
  /\ last_call.op = "get_today_weather"
  /\ last_call.failed
  /\ last_call.outcome = "timeout"
  /\ last_call.use_db
  /\ last_call.result = << get_fallback_weather >>
  /\ last_call.key \notin DOMAIN memory_cache
  /\ last_call.key \notin DOMAIN cached_data
  /\ \E k \in DOMAIN cached_data :
       k.date = last_call.key.date /\ k \in DOMAIN memory_cache

\* C30: a call of get_predictions_and_resources whose snapshot lacks a
\* required raw field raises the validation error naming the missing
\* fields, having made no cache read or write (both tiers are as they were
\* and no cache_service call was made), and the predictions table is
\* unchanged: no record is created and none is modified.
C30_ValidationBeforeEffects ==
  [][\A sim \in PipeSimWeather, db_ok \in BOOLEAN :
       (AbsentRawFields # {} /\ Orchestrate(sim, db_ok)) =>
         /\ last_call'.raised
         /\ last_call'.error = "hospital_fields"
         /\ Range(last_call'.missing) = AbsentRawFields
         /\ last_call'.cache_calls = 0
         /\ memory_cache' = memory_cache
         /\ cached_data' = cached_data
         /\ predictions' = predictions
         /\ feature_vector' = feature_vector]_vars

\* A call has been rejected for a missing field while the table holds the
\* record an earlier, complete call stored, and the cache the entries the
\* context enrichment wrote.
C30_Witness ==
  /\ step = "raised"
  /\ last_call.op = "get_predictions_and_resources"
  /\ last_call.error = "hospital_fields"
  /\ last_call.cache_calls = 0
  /\ AbsentRawFields # {}
  /\ predictions # {}
  /\ DOMAIN cached_data # {}

====
